---- MODULE Spec2Model ----
(***************************************************************************)
(* Model of the AI buy-recommendation pipeline of stock-manage:            *)
(*   AIAnalyzer.analyze_ticker       (src/analysis/ai_analyzer.py 606-725) *)
(*   AIAnalyzer._parse_response      (src/analysis/ai_analyzer.py 531-604) *)
(*   AIAnalyzer.analyze_all_watchlist (src/analysis/ai_analyzer.py 1159-1239)*)
(*                                                                         *)
(* Numbers: a confidence is an integer number of hundredths (0.58 is 58),  *)
(* a price is an integer amount, so the band tests of _parse_response are  *)
(* integer comparisons (price*95 <= target*100).  An optional number is a  *)
(* set: {} is Python's None and {n} is the number n.  A settings attribute *)
(* that the class Settings does not define is NoAttr ({}): reading it      *)
(* raises AttributeError.                                                  *)
(*                                                                         *)
(* Two specifications share the actions of analyze_ticker:                 *)
(*   Spec     one run of analyze_all_watchlist over NumTickers tickers.    *)
(*            What a worker does between two of its blocking points (the   *)
(*            oracle call, the sleeps) touches nothing another worker      *)
(*            touches and is one step: the oracle's answer, the gate       *)
(*            (669-725) and the return into _analyze_one (1209-1225).      *)
(*   SpecGate one direct call analyze_ticker(t) (as src/test_script.py:22  *)
(*            does), with the decision gate taken statement by statement.  *)
(***************************************************************************)
EXTENDS Integers, Sequences, FiniteSets, TLC

\* ------------------------------------------------------------------ bounds
NumTickers == 2
MaxConcurrency == 2
\* Faults the environment injects in one run: failed oracle calls, and storage
\* exceptions (session, query, flush, commit).
MaxOracleFailures == 3
MaxDbFailures == 1
\* Instruments of the universe get_priority_tickers scans.
NumInstruments == 4
\* AlertHistory rows one run of the alert model stores, and its length in minutes.
MaxAlerts == 2
MaxTime == 20

\* days the backtester is followed
MaxDay == 31

\* ------------------------------------------------------- program constants
\* for attempt in range(3), ai_analyzer.py:639
ApiAttempts == 3
\* max_retries = 3, ai_analyzer.py:1204
max_retries == 3
\* BUY_CONFIDENCE_THRESHOLD default "0.65", settings.py:26 (hundredths)
DefaultBuyThreshold == 65
\* COOLDOWN_MINUTES = 60, alert_manager.py:52
COOLDOWN_MINUTES == 60
\* the alert check runs every 5 minutes, scheduler.py:271
TickMinutes == 5
\* TRADING_COST = 0.003, backtester.py:38 (thousandths)
TRADING_COST == 3
\* MAX_CACHE_SIZE = 200, market_data.py:40
MAX_CACHE_SIZE == 200

Tickers == 1..NumTickers

NoAttr == {}
None == {}
Some(n) == {n}
Val(o) == CHOOSE n \in o : TRUE

VARIABLES
    settings,      \* the Settings object read by the analyzer
    dispatch,      \* analyze_all_watchlist: "direct" (not running), "start", "running", "returned", "raised"
    results,       \* results dict of analyze_all_watchlist: ticker -> outcome, "unset" before
    pc,            \* per ticker: where its worker / its analyze_ticker call stands:
                   \*   "unsubmitted", "queued", "stagger", "enter", "api", "api_sleep",
                   \*   "response", "validated", "threshold_checked", "risk_checked",
                   \*   "flushed", "returned", "raised", "retry_sleep", "done", "collected"
    attempt,       \* per ticker: attempt of the for loop of _analyze_one (0-based)
    api_attempt,   \* per ticker: attempt of the for loop of analyze_ticker (0-based)
    oracle_calls,  \* per ticker: generate_content calls made so far by the item's running
                   \*   task or direct call (0 once the task of _analyze_one has ended)
    last_err,      \* per ticker: last_err of analyze_ticker: "none", "rate_limit", "other"
    oracle_failures, \* environment: oracle calls that failed so far in this run
    db_failures,   \* environment: storage exceptions raised so far in this run
    exc,           \* per ticker: exception leaving analyze_ticker / _analyze_one: "none", "plain", "429", "attr"
    ret,           \* per ticker: value returned by analyze_ticker ("None" or an action) / by _analyze_one
    recs,          \* per ticker: sequence of committed AIRecommendation rows
    raw,           \* SpecGate: the payload the oracle answered with (response.text)
    parsed,        \* SpecGate: the dict returned by _parse_response while the gate works on it
    price,         \* SpecGate: context["current_price"] of the call
    validated,     \* SpecGate: copy of parsed as _parse_response returned it
    risk_calls,    \* SpecGate: number of risk_manager.check_can_buy calls
    risk_result,   \* SpecGate: what check_can_buy answered: "none", "allowed", "disallowed", "error"
    gate_log,      \* SpecGate: the gate steps taken, in order
    waited,        \* per ticker: time units its worker slept in the stagger of _analyze_one
    script,        \* per ticker: what the oracle is set up to do for the item: {} is
                   \*   anything, {s} is s.fails rate-limit errors, then s.payload
    delays,        \* environment: the retry delays the texts of this run's errors can name
    wait,          \* per ticker: wait_time (659-662) / wait (1212, 1220) of the sleep the
                   \*   item is in, seconds; {} when it is not in a backoff sleep
    err_delay,     \* per ticker: the retry delay named by the text of the error that
                   \*   sent the item to sleep, whole seconds; {} when none
    \* get_priority_tickers
    ppc,           \* where the call stands: "idle", "start", "scoring", "selecting", "returned"
    max_count,     \* its argument
    vix_data,      \* what the fetch of ^VIX did
    vix_level,     \* vix_level, a float
    regime_name,   \* regime_name
    weights,       \* weights of the regime, hundredths
    scan,          \* position in watchlist of the next ticker to score
    cur,           \* the last pass of the scoring loop: ticker, what was found, raw_adx
    local_weights, \* local_weights of the last scored ticker, as fractions
    stock_scores,  \* stock_scores
    absent,        \* tickers for which the storage had no usable data
    sel,           \* position in stock_scores of the next item of the selection loop
    selected,      \* selected
    sector_counts, \* sector_counts, 0 for a sector without entry
    \* AlertManager
    clock,         \* minutes passed
    alert_history, \* committed AlertHistory rows: stock, alert_type, triggered_at
    price_alerts,  \* active PriceAlert rows: stock, alert_type, threshold_value
    set_call,      \* the last set_alert call: its alert_type, what it returned, whether
                   \*   it opened a session, whether it created or changed a PriceAlert
    \* _parse_response, the scores
    spc,           \* where the call stands: "idle", "defaults", "checked", "returned"
    reported,      \* weighted_score and the three sub-scores as the oracle reported them
    data,          \* the same four fields of data as they stand
    \* Backtester
    today,         \* days passed
    market,        \* the daily close of the stock per day, as the market makes it
    brecs,         \* AIRecommendation rows: recommendation_date, price_at_recommendation,
                   \*   outcome_price, outcome_return
    bt_ret,        \* what the last update_outcomes call returned; {} when time passed since
    \* MarketDataFetcher._get_ticker
    cache,         \* self._cache: its keys among the symbols of the workers, and the
                   \*   number of its other keys
    tpc,           \* per worker: where its _get_ticker call stands
    tsym,          \* per worker: position in the symbol list of the symbol it asks for
    failed,        \* per worker: symbols whose lookup of line 49 raised KeyError
    \* get_priority_tickers, the factors of one instrument
    fpc,           \* where the pass stands: "idle", "next" (about to score an
                   \*   instrument), "scored"
    factors        \* f_trend, f_momentum, f_reversion, f_volume, f_strength,
                   \*   penalty_mult, local_weights and composite of the instrument
                   \*   scored last

vars == <<settings, dispatch, results, pc, attempt, api_attempt, oracle_calls, last_err,
          oracle_failures, db_failures, exc, ret, recs, raw, parsed, price, validated,
          risk_calls, risk_result, gate_log, waited, script, delays, wait, err_delay,
          ppc, max_count, vix_data, vix_level, regime_name, weights, scan, cur,
          local_weights, stock_scores, absent, sel, selected, sector_counts,
          clock, alert_history, price_alerts, set_call,
          spc, reported, data, today, market, brecs, bt_ret, cache, tpc, tsym, failed,
          fpc, factors>>

\* the variables of the analyzer and its dispatch
core_vars == <<settings, dispatch, results, pc, attempt, api_attempt, oracle_calls, last_err,
               oracle_failures, db_failures, exc, ret, recs, raw, parsed, price, validated,
               risk_calls, risk_result, gate_log, waited, script, delays, wait, err_delay>>
prio_vars == <<ppc, max_count, vix_data, vix_level, regime_name, weights, scan, cur,
               local_weights, stock_scores, absent, sel, selected, sector_counts>>
alert_vars == <<clock, alert_history, price_alerts, set_call>>
score_vars == <<spc, reported, data>>
bt_vars == <<today, market, brecs, bt_ret>>
cache_vars == <<cache, tpc, tsym, failed>>
factor_vars == <<fpc, factors>>
ext_vars == <<score_vars, bt_vars, cache_vars, factor_vars>>

\* variables of the other components (priority scorer, alert manager, ...)
other_vars == <<prio_vars, alert_vars, ext_vars>>

gate_vars == <<raw, parsed, price, validated, risk_calls, risk_result, gate_log>>
item_vars == <<pc, attempt, api_attempt, oracle_calls, last_err, exc, ret, recs, waited,
               wait, err_delay>>
env_vars == <<oracle_failures, db_failures>>

\* ---------------------------------------------------------------- settings
\* Values the environment can give BUY_CONFIDENCE_THRESHOLD (settings.py:26).
Thresholds == {50, DefaultBuyThreshold}
\* Values of GEMINI_BACKOFF_BASE when the deployment defines it.
BackoffBases == {2}

\* class Settings (settings.py:16-96) defines neither GEMINI_CONCURRENCY nor
\* GEMINI_BACKOFF_BASE; ai_analyzer.py reads both (659, 1195, 1212, 1220).  The
\* settings object is a mutable module-level singleton (kakao.py:60-62 assigns
\* attributes at run time), so a run finds each attribute either missing, as
\* in the class as written, or set by the deployment.
SettingsSpace ==
    [ GEMINI_API_KEY : BOOLEAN,
      GEMINI_CONCURRENCY : {NoAttr} \cup {Some(c) : c \in 1..MaxConcurrency},
      GEMINI_BACKOFF_BASE : {NoAttr} \cup {Some(b) : b \in BackoffBases},
      BUY_CONFIDENCE_THRESHOLD : Thresholds ]

\* ------------------------------------------------- Python number semantics
\* A float: nan is float("nan"), else the value v (hundredths for a confidence).
Num(n) == [nan |-> FALSE, v |-> n]
NaN == [nan |-> TRUE, v |-> 0]
\* Python's a < b and a <= b: every comparison with nan is False.
PyLt(a, b) == ~a.nan /\ ~b.nan /\ a.v < b.v
PyLe(a, b) == ~a.nan /\ ~b.nan /\ a.v <= b.v
\* Python's min(a, b) / max(a, b): the first argument unless the second is
\* strictly smaller / larger.
PyMin(a, b) == IF PyLt(b, a) THEN b ELSE a
PyMax(a, b) == IF PyLt(a, b) THEN b ELSE a

\* ------------------------------------------------------- oracle payloads
\* response.text as _parse_response sees it.  text: "json" parses directly,
\* "wrapped" is JSON inside other text (found by the regex), "nobrace" has no
\* {...} block, "badjson" has a block that is not JSON.  confidence.k: "absent"
\* (no such key), "null" (float() raises), "num" (a number, nan included).
\* reasoning: "text" a string, "null" a JSON null, "absent" no such key.
ValidActions == {"STRONG_BUY", "BUY", "HOLD"}
PayloadActions == ValidActions \cup {"SELL", "absent"}
PayloadConfidences ==
    {[k |-> "absent", n |-> Num(0)], [k |-> "null", n |-> Num(0)], [k |-> "num", n |-> NaN]}
    \cup {[k |-> "num", n |-> Num(c)] : c \in {-20, 58, 65, 90, 150}}
PayloadTargets == {None, Some(90), Some(95), Some(130), Some(145)}
PayloadStops == {None, Some(80), Some(85), Some(99), Some(100)}
\* context["current_price"] = prices[-1]["close"] (ai_analyzer.py:315): a
\* number whenever analyze_ticker gets past its "no prices" return, 0 included.
Prices == {0, 100}

Payloads ==
    [ text : {"json", "wrapped", "nobrace", "badjson"},
      action : PayloadActions,
      confidence : PayloadConfidences,
      reasoning : {"text", "null", "absent"},
      target_price : PayloadTargets,
      stop_loss : PayloadStops ]

\* no response yet
NoPayload ==
    [ text |-> "none", action |-> "absent", confidence |-> [k |-> "absent", n |-> Num(0)],
      reasoning |-> "absent", target_price |-> None, stop_loss |-> None ]

\* The payloads a dispatch run draws from, one of each kind of outcome: a
\* STRONG_BUY and a BUY that stay, a BUY under the threshold, an invalid
\* action, a text without JSON.
DispatchPayloads ==
    [ text : {"json"}, action : {"STRONG_BUY", "BUY", "SELL"},
      confidence : {[k |-> "num", n |-> Num(90)]},
      reasoning : {"text"}, target_price : {None}, stop_loss : {None} ]
    \cup
    [ text : {"json", "nobrace"}, action : {"BUY"},
      confidence : {[k |-> "num", n |-> Num(58)]},
      reasoning : {"text"}, target_price : {None}, stop_loss : {None} ]
\* what the risk manager answers in a dispatch run (its other answers change
\* the reasoning only, never what _analyze_one sees)
DispatchRiskOutcomes == {"allowed"}
\* and the current price of its tickers.
DispatchPrices == {p \in Prices : p > 0}

\* What a stub oracle is set up to do for one item: fail with a rate-limit
\* error s.fails times, then answer with s.payload (a BUY that stays, a BUY
\* under the threshold).
ScriptFails == {0, 2}
Scripts ==
    [ fails : ScriptFails,
      payload : {p \in DispatchPayloads : p.text = "json" /\ p.action = "BUY"} ]

\* ------------------------------------------------------- _parse_response
NoData ==
    [ action |-> "HOLD", confidence |-> Num(0), reasoning |-> "text",
      target_price |-> None, stop_loss |-> None, annotated |-> FALSE ]

\* json.loads, else the {...} block found by re.search (533-542).
JsonParses(p) == p.text \in {"json", "wrapped"}

\* Usable without the test of 549-551: any action passes.
Usable_any_action(p) ==
    /\ JsonParses(p)
    /\ p.action # "absent" /\ p.confidence.k # "absent" /\ p.reasoning # "absent"
    /\ p.confidence.k = "num"

\* required fields present (544-547), action valid (549-551), float() of the
\* confidence does not raise (553).
Usable(p) ==
    /\ JsonParses(p)
    /\ p.action # "absent" /\ p.confidence.k # "absent" /\ p.reasoning # "absent"
    /\ p.action \in ValidActions
    /\ p.confidence.k = "num"

\* The clamp written with two comparisons, "if c < 0: 0 elif c > 1: 1": nan
\* passes both.
ClampConfidence_cmp(c) ==
    IF PyLt(c, Num(0)) THEN Num(0)
    ELSE IF PyLt(Num(100), c) THEN Num(100)
    ELSE c

\* 553-556: confidence = float(...); if not (0.0 <= c <= 1.0): max(0.0, min(1.0, c))
ClampConfidence(c) ==
    IF ~(PyLe(Num(0), c) /\ PyLe(c, Num(100)))
    THEN PyMax(Num(0), PyMin(Num(100), c))
    ELSE c

\* 585-590: a target outside [0.95, 1.30] x current_price becomes None.
TargetInBand(tp, current_price) ==
    current_price * 95 <= tp * 100 /\ tp * 100 <= current_price * 130
\* 591-596: a stop outside [0.85, 0.99] x current_price becomes None.
StopInBand(sl, current_price) ==
    current_price * 85 <= sl * 100 /\ sl * 100 <= current_price * 99

\* The target test with its lower bound forgotten.
CheckTarget_upper_only(tp, current_price) ==
    IF current_price > 0 /\ tp # None /\ ~(Val(tp) * 100 <= current_price * 130)
    THEN None ELSE tp

CheckTarget(tp, current_price) ==
    IF current_price > 0 /\ tp # None /\ ~TargetInBand(Val(tp), current_price)
    THEN None ELSE tp
CheckStop(sl, current_price) ==
    IF current_price > 0 /\ sl # None /\ ~StopInBand(Val(sl), current_price)
    THEN None ELSE sl

\* _parse_response(text, current_price): ok = FALSE when it raises.
parse_response(p, current_price) ==
    IF ~Usable(p)
    THEN [ok |-> FALSE, data |-> NoData]
    ELSE [ok |-> TRUE,
          data |-> [ action |-> p.action,
                     confidence |-> ClampConfidence(p.confidence.n),
                     reasoning |-> p.reasoning,
                     target_price |-> CheckTarget(p.target_price, current_price),
                     stop_loss |-> CheckStop(p.stop_loss, current_price),
                     annotated |-> FALSE ]]

\* ------------------------------------------- analyze_ticker, lines 677-715
\* A threshold step that also promotes: HOLD at or over the threshold becomes BUY.
ThresholdStep_promote(d, threshold) ==
    IF d.action \in {"BUY", "STRONG_BUY"} /\ PyLt(d.confidence, Num(threshold))
    THEN [d EXCEPT !.action = "HOLD"]
    ELSE IF d.action = "HOLD" /\ ~PyLt(d.confidence, Num(threshold))
         THEN [d EXCEPT !.action = "BUY"]
         ELSE d

\* A threshold step that tests parsed["action"] == "BUY" only.
ThresholdStep_buy_only(d, threshold) ==
    IF d.action = "BUY" /\ PyLt(d.confidence, Num(threshold))
    THEN [d EXCEPT !.action = "HOLD"]
    ELSE d

\* 678-685: BUY / STRONG_BUY under the threshold becomes HOLD, confidence kept.
ThresholdStep(d, threshold) ==
    IF d.action \in {"BUY", "STRONG_BUY"} /\ PyLt(d.confidence, Num(threshold))
    THEN [d EXCEPT !.action = "HOLD"]
    ELSE d

\* The risk manager asked for every verdict.
RiskNeeded_always(d) == TRUE

\* 688: the risk manager is asked only for BUY / STRONG_BUY.
RiskNeeded(d) == d.action \in {"BUY", "STRONG_BUY"}

\* 689-700: on "not allowed" the reasoning gets a warning appended and the
\* action stays; an exception of the check (or of += on a reasoning that is no
\* string) is swallowed.
RiskOutcomes == {"allowed", "disallowed", "error"}
RiskStep(d, risk) ==
    IF risk = "disallowed" /\ d.reasoning = "text"
    THEN [d EXCEPT !.annotated = TRUE]
    ELSE d

\* A row stored with the action HOLD whatever the gate decided.
MakeRec_hold(d, current_price) ==
    [action |-> "HOLD", confidence |-> d.confidence, target_price |-> d.target_price,
     stop_loss |-> d.stop_loss, annotated |-> d.annotated,
     price_at_recommendation |-> current_price]

\* 703-715: the AIRecommendation row built from the gated dict.
MakeRec(d, current_price) ==
    [ action |-> d.action, confidence |-> d.confidence,
      target_price |-> d.target_price, stop_loss |-> d.stop_loss,
      annotated |-> d.annotated, price_at_recommendation |-> current_price ]

\* 677-700 as one function of the validated dict.
GateResult(d, threshold, risk) ==
    LET t == ThresholdStep(d, threshold)
    IN  IF RiskNeeded(t) THEN RiskStep(t, risk) ELSE t

\* ------------------------------------------------------------ environment
\* The storage raises: one more of the run's storage faults.
DbFails ==
    /\ db_failures < MaxDbFailures
    /\ db_failures' = db_failures + 1
DbWorks == db_failures' = db_failures
\* The text of a storage exception holds "429" or not (SQLAlchemy prints the
\* statement's parameters: ids, prices, timestamps).
DbExcKinds == {"plain", "429"}

\* The oracle (client.models.generate_content, 641) fails on this call: one
\* more of the run's oracle faults, or the next rate-limit error of the script.
OracleFails(i) ==
    IF script[i] = None
    THEN /\ oracle_failures < MaxOracleFailures
         /\ oracle_failures' = oracle_failures + 1
    ELSE /\ oracle_calls[i] <= Val(script[i]).fails
         /\ oracle_failures' = oracle_failures
\* The oracle answers this call.
OracleAnswers(i) == IF script[i] = None THEN TRUE ELSE oracle_calls[i] > Val(script[i]).fails
\* what its exception is, and what it answers with
OracleErrors(i) == IF script[i] = None THEN {"rate_limit", "other"} ELSE {"rate_limit"}
OraclePayloads(i) == IF script[i] = None THEN DispatchPayloads ELSE {Val(script[i]).payload}

\* ----------------------------------------------------------------- backoff
\* The retry delays an error text can name: none, or "retry ... <n>s" /
\* "retry ... <n>.<f>s" with n whole seconds.
RetryDelays == {None, Some(1), Some(3)}

\* 1189-1192 _parse_retry_delay, and 660-662 inline: re.search of
\* r"retry.*?(\d+)\.?\d*s"; int(group(1)) + 1 when it matches, else 0 (1192) /
\* wait_time left as it is (661).
parse_retry_delay(err) == IF err = None THEN 0 ELSE Val(err) + 1

\* The wait with min in the place of max.
BackoffWait_min(base, a, err) ==
    IF err # None /\ parse_retry_delay(err) < base * 2^a
    THEN parse_retry_delay(err) ELSE base * 2^a

\* 659-662, 1212, 1220: max(settings.GEMINI_BACKOFF_BASE * (2 ** attempt), hint)
BackoffWait(base, a, err) ==
    IF parse_retry_delay(err) > base * 2^a THEN parse_retry_delay(err) ELSE base * 2^a

\* ------------------------------------------------------------ _analyze_one
\* The return of 1209 handing on what analyze_ticker returned, None included.
analyze_one_return_raw(i, v) ==
    /\ pc' = [pc EXCEPT ![i] = "done"]
    /\ ret' = [ret EXCEPT ![i] = v]
    /\ exc' = exc
    /\ attempt' = [attempt EXCEPT ![i] = 0]
    /\ oracle_calls' = [oracle_calls EXCEPT ![i] = 0]

\* 1209: return ticker, rec.action if rec else "ERROR"; the task ends.
analyze_one_return(i, v) ==
    /\ pc' = [pc EXCEPT ![i] = "done"]
    /\ ret' = [ret EXCEPT ![i] = IF v = "None" THEN "ERROR" ELSE v]
    /\ exc' = exc
    /\ attempt' = [attempt EXCEPT ![i] = 0]
    /\ oracle_calls' = [oracle_calls EXCEPT ![i] = 0]

\* 1210-1225: the except clauses, for an exception of kind k leaving
\* analyze_ticker.  ResourceExhausted or '429' in str(e) with attempts left:
\* back off and retry; anything else: ERROR.
analyze_one_except(i, k) ==
    IF k = "429" /\ attempt[i] < max_retries - 1
    THEN IF settings.GEMINI_BACKOFF_BASE = NoAttr
         THEN \* 1212 / 1220 raise AttributeError inside the except clause: it
              \* leaves _analyze_one and is stored in the future
              /\ pc' = [pc EXCEPT ![i] = "done"]
              /\ exc' = [exc EXCEPT ![i] = "attr"]
              /\ ret' = ret
              /\ attempt' = [attempt EXCEPT ![i] = 0]
              /\ oracle_calls' = [oracle_calls EXCEPT ![i] = 0]
              /\ UNCHANGED <<wait, err_delay>>
         ELSE \* 1212-1214 / 1220-1222: wait is computed, the sleep starts
              /\ pc' = [pc EXCEPT ![i] = "retry_sleep"]
              /\ \E e \in delays :
                    /\ err_delay' = [err_delay EXCEPT ![i] = e]
                    /\ wait' = [wait EXCEPT ![i] =
                                   Some(BackoffWait(Val(settings.GEMINI_BACKOFF_BASE), attempt[i], e))]
              /\ UNCHANGED <<exc, ret, attempt, oracle_calls>>
    ELSE /\ pc' = [pc EXCEPT ![i] = "done"]
         /\ ret' = [ret EXCEPT ![i] = "ERROR"]
         /\ exc' = exc
         /\ attempt' = [attempt EXCEPT ![i] = 0]
         /\ oracle_calls' = [oracle_calls EXCEPT ![i] = 0]
         /\ UNCHANGED <<wait, err_delay>>

\* --------------------------------------------------------- analyze_ticker
\* return <v> of analyze_ticker / an exception of kind k leaving it: its
\* locals end; in a dispatch run _analyze_one goes on with the result.
Returns(i, v) ==
    /\ api_attempt' = [api_attempt EXCEPT ![i] = 0]
    /\ last_err' = [last_err EXCEPT ![i] = "none"]
    /\ UNCHANGED <<wait, err_delay>>
    /\ IF dispatch = "direct"
       THEN /\ pc' = [pc EXCEPT ![i] = "returned"]
            /\ ret' = [ret EXCEPT ![i] = v]
            /\ UNCHANGED <<exc, attempt, oracle_calls>>
       ELSE analyze_one_return(i, v)
Raises(i, k) ==
    /\ api_attempt' = [api_attempt EXCEPT ![i] = 0]
    /\ last_err' = [last_err EXCEPT ![i] = "none"]
    /\ IF dispatch = "direct"
       THEN /\ pc' = [pc EXCEPT ![i] = "raised"]
            /\ exc' = [exc EXCEPT ![i] = k]
            /\ UNCHANGED <<ret, attempt, oracle_calls, wait, err_delay>>
       ELSE analyze_one_except(i, k)

\* 615-641: client, session, context, stock, prompt; 638: last_err = None;
\* 641: the first generate_content request goes out.
analyze_ticker_enter(i) ==
    /\ pc[i] = "enter"
    /\ UNCHANGED <<other_vars, script, delays, settings, dispatch, results, recs, oracle_failures, gate_vars, waited>>
    /\ \/ \* 615-619: _get_client raises RuntimeError without GEMINI_API_KEY
          /\ ~settings.GEMINI_API_KEY
          /\ Returns(i, "None")
          /\ DbWorks
       \/ \* 623-630: no context, no prices or no stock row
          /\ settings.GEMINI_API_KEY
          /\ script[i] = None
          /\ Returns(i, "None")
          /\ DbWorks
       \/ \* 621-632: a storage error leaves the with block (connection.py:125-128)
          /\ settings.GEMINI_API_KEY
          /\ DbFails
          /\ \E k \in DbExcKinds : Raises(i, k)
       \/ \* 632-641: the prompt is built, the loop starts
          /\ settings.GEMINI_API_KEY
          /\ pc' = [pc EXCEPT ![i] = "api"]
          /\ api_attempt' = [api_attempt EXCEPT ![i] = 0]
          /\ last_err' = [last_err EXCEPT ![i] = "none"]
          /\ oracle_calls' = [oracle_calls EXCEPT ![i] = @ + 1]
          /\ DbWorks
          /\ UNCHANGED <<ret, exc, attempt, wait, err_delay>>

\* 669-725 in one step (dispatch run): parse, gate, store, return.
analyze_ticker_gate(i) ==
    \E p \in OraclePayloads(i), cp \in DispatchPrices, risk \in DispatchRiskOutcomes :
        LET r == parse_response(p, cp)
            d == GateResult(r.data, settings.BUY_CONFIDENCE_THRESHOLD, risk)
        IN  \/ /\ ~r.ok
               /\ Returns(i, "None")
               /\ recs' = recs
               /\ DbWorks
            \/ \* flush or commit raises: rollback (connection.py:125-128)
               /\ r.ok
               /\ DbFails
               /\ \E k \in DbExcKinds : Raises(i, k)
               /\ recs' = recs
            \/ /\ r.ok
               /\ DbWorks
               /\ recs' = [recs EXCEPT ![i] = Append(@, MakeRec(d, cp))]
               /\ Returns(i, d.action)

\* 641-668: generate_content comes back: break, or the except clause of the
\* loop.  An exception raised inside the loop is caught at 673.
analyze_ticker_call(i) ==
    /\ pc[i] = "api"
    /\ UNCHANGED <<other_vars, script, delays, settings, dispatch, results, gate_vars, waited>>
    /\ \/ \* 641-655: a response arrives; break (direct call: the gate follows
          \* statement by statement).  attempt and last_err are not read again.
          /\ dispatch = "direct"
          /\ OracleAnswers(i)
          /\ pc' = [pc EXCEPT ![i] = "response"]
          /\ api_attempt' = [api_attempt EXCEPT ![i] = 0]
          /\ last_err' = [last_err EXCEPT ![i] = "none"]
          /\ UNCHANGED <<ret, exc, attempt, oracle_calls, recs, env_vars, wait, err_delay>>
       \/ \* 641-655, 669-725: a response arrives; break, gate, return
          /\ dispatch # "direct"
          /\ OracleAnswers(i)
          /\ analyze_ticker_gate(i)
          /\ oracle_failures' = oracle_failures
       \/ \* 656-666: the call fails and attempts are left
          /\ api_attempt[i] < ApiAttempts - 1
          /\ OracleFails(i)
          /\ UNCHANGED <<recs, db_failures>>
          /\ IF settings.GEMINI_BACKOFF_BASE = NoAttr
             THEN \* 659 raises AttributeError, caught at 673: return None
                  Returns(i, "None")
             ELSE \* 659-666: wait_time is computed, the sleep starts
                  /\ pc' = [pc EXCEPT ![i] = "api_sleep"]
                  /\ \E kind \in OracleErrors(i) :
                        last_err' = [last_err EXCEPT ![i] = kind]
                  /\ \E e \in delays :
                        /\ err_delay' = [err_delay EXCEPT ![i] = e]
                        /\ wait' = [wait EXCEPT ![i] =
                                       Some(BackoffWait(Val(settings.GEMINI_BACKOFF_BASE),
                                                        api_attempt[i], e))]
                  /\ UNCHANGED <<ret, exc, attempt, oracle_calls, api_attempt>>
       \/ \* 667-668, 673-675: the last attempt fails: raise last_err, return None
          /\ api_attempt[i] = ApiAttempts - 1
          /\ OracleFails(i)
          /\ UNCHANGED <<recs, db_failures>>
          /\ Returns(i, "None")

\* 666: time.sleep(wait_time) ends; 639-641: the next pass of the loop sends
\* the request again.
analyze_ticker_wake(i) ==
    /\ pc[i] = "api_sleep"
    /\ pc' = [pc EXCEPT ![i] = "api"]
    /\ api_attempt' = [api_attempt EXCEPT ![i] = @ + 1]
    /\ oracle_calls' = [oracle_calls EXCEPT ![i] = @ + 1]
    /\ wait' = [wait EXCEPT ![i] = None]
    /\ err_delay' = [err_delay EXCEPT ![i] = None]
    /\ UNCHANGED <<other_vars, script, delays, settings, dispatch, results, attempt, last_err,
                   env_vars, exc, ret, recs, gate_vars, waited>>

\* ------------------------------- analyze_ticker 669-725, statement by statement
GateUnchanged == UNCHANGED <<other_vars, script, delays, settings, dispatch, results, oracle_failures, waited>>
\* the step stays inside analyze_ticker
GateStays == UNCHANGED <<ret, exc, attempt, oracle_calls, api_attempt, last_err, wait, err_delay>>

\* 669-675: _parse_response on response.text; an exception returns None.
gate_validate(i) ==
    /\ pc[i] = "response"
    /\ dispatch = "direct"
    /\ GateUnchanged
    /\ UNCHANGED <<recs, risk_calls, risk_result, db_failures>>
    /\ \E p \in Payloads, cp \in Prices :
          LET r == parse_response(p, cp)
          IN  /\ raw' = p
              /\ price' = cp
              /\ IF r.ok
                 THEN /\ parsed' = r.data
                      /\ validated' = r.data
                      /\ gate_log' = Append(gate_log, "VALIDATED")
                      /\ pc' = [pc EXCEPT ![i] = "validated"]
                      /\ GateStays
                 ELSE /\ UNCHANGED <<parsed, validated>>
                      /\ gate_log' = Append(gate_log, "REJECTED")
                      /\ Returns(i, "None")

\* 677-685: the confidence threshold.
gate_threshold(i) ==
    /\ pc[i] = "validated"
    /\ GateUnchanged
    /\ parsed' = ThresholdStep(parsed, settings.BUY_CONFIDENCE_THRESHOLD)
    /\ gate_log' = Append(gate_log, "THRESHOLD_CHECKED")
    /\ pc' = [pc EXCEPT ![i] = "threshold_checked"]
    /\ GateStays
    /\ UNCHANGED <<recs, raw, price, validated, risk_calls, risk_result, db_failures>>

\* 687-700: the risk manager, asked only while the action is a buy.
gate_risk(i) ==
    /\ pc[i] = "threshold_checked"
    /\ GateUnchanged
    /\ pc' = [pc EXCEPT ![i] = "risk_checked"]
    /\ GateStays
    /\ UNCHANGED <<recs, raw, price, validated, db_failures>>
    /\ \/ /\ RiskNeeded(parsed)
          /\ \E risk \in RiskOutcomes :
                /\ risk_result' = risk
                /\ parsed' = RiskStep(parsed, risk)
          /\ risk_calls' = risk_calls + 1
          /\ gate_log' = gate_log \o <<"RISK_CALL", "RISK_CHECKED">>
       \/ /\ ~RiskNeeded(parsed)
          /\ gate_log' = Append(gate_log, "RISK_CHECKED")
          /\ UNCHANGED <<parsed, risk_calls, risk_result>>

\* 702-725: the row is added and flushed.  A reasoning that is no string
\* violates NOT NULL (models.py:261); get_db rolls back on any exception.
gate_persist(i) ==
    /\ pc[i] = "risk_checked"
    /\ GateUnchanged
    /\ UNCHANGED <<recs, raw, parsed, price, validated, risk_calls, risk_result>>
    /\ \/ /\ parsed.reasoning = "text"
          /\ DbWorks
          /\ gate_log' = Append(gate_log, "PERSIST")
          /\ pc' = [pc EXCEPT ![i] = "flushed"]
          /\ GateStays
       \/ /\ parsed.reasoning # "text"
          /\ DbWorks
          /\ gate_log' = Append(gate_log, "ROLLBACK")
          /\ \E k \in DbExcKinds : Raises(i, k)
       \/ /\ DbFails
          /\ gate_log' = Append(gate_log, "ROLLBACK")
          /\ \E k \in DbExcKinds : Raises(i, k)

\* connection.py:124-130: commit at the end of the with block, then return rec.
gate_commit(i) ==
    /\ pc[i] = "flushed"
    /\ GateUnchanged
    /\ UNCHANGED <<raw, parsed, price, validated, risk_calls, risk_result>>
    /\ \/ /\ DbWorks
          /\ recs' = [recs EXCEPT ![i] = Append(@, MakeRec(parsed, price))]
          /\ gate_log' = Append(gate_log, "FINAL")
          /\ Returns(i, parsed.action)
       \/ /\ DbFails
          /\ recs' = recs
          /\ gate_log' = Append(gate_log, "ROLLBACK")
          /\ \E k \in DbExcKinds : Raises(i, k)

\* -------------------------------------------------- analyze_all_watchlist
Concurrency == Val(settings.GEMINI_CONCURRENCY)

\* 1201: stagger = (idx % concurrency) * 1.0, in time units; the item of
\* ticker i was submitted with idx = i - 1 (enumerate, 1230).
Stagger(i) == (i - 1) % Concurrency

\* A worker thread of the executor is busy with the item.
InFlight(i) ==
    pc[i] \in {"stagger", "enter", "api", "api_sleep", "retry_sleep"}

DispatchUnchanged == UNCHANGED <<other_vars, script, delays, settings, env_vars, gate_vars>>

\* 1194-1232: concurrency is read, the executor made, every item submitted.
dispatch_start ==
    /\ dispatch = "start"
    /\ DispatchUnchanged
    /\ UNCHANGED <<results, attempt, api_attempt, oracle_calls, last_err, exc, ret, recs, waited,
                   wait, err_delay>>
    /\ \/ \* 1195: AttributeError leaves analyze_all_watchlist
          /\ settings.GEMINI_CONCURRENCY = NoAttr
          /\ dispatch' = "raised"
          /\ pc' = pc
       \/ /\ settings.GEMINI_CONCURRENCY # NoAttr
          /\ dispatch' = "running"
          /\ pc' = [i \in Tickers |-> "queued"]

\* An executor that starts a thread for every submitted item.
worker_pick_unbounded(i) ==
    /\ pc[i] = "queued"
    /\ \A j \in Tickers : j < i => pc[j] # "queued"
    /\ pc' = [pc EXCEPT ![i] = IF Stagger(i) > 0 THEN "stagger" ELSE "enter"]
    /\ attempt' = [attempt EXCEPT ![i] = 0]
    /\ DispatchUnchanged
    /\ UNCHANGED <<dispatch, results, api_attempt, oracle_calls, last_err, exc, ret, recs, waited,
                   wait, err_delay>>

\* A free worker (ThreadPoolExecutor(max_workers=concurrency), 1227) takes the
\* oldest queued item; 1199-1203: the stagger.
worker_pick(i) ==
    /\ pc[i] = "queued"
    /\ \A j \in Tickers : j < i => pc[j] # "queued"
    /\ Cardinality({j \in Tickers : InFlight(j)}) < Concurrency
    /\ pc' = [pc EXCEPT ![i] = IF Stagger(i) > 0 THEN "stagger" ELSE "enter"]
    /\ attempt' = [attempt EXCEPT ![i] = 0]
    /\ DispatchUnchanged
    /\ UNCHANGED <<dispatch, results, api_attempt, oracle_calls, last_err, exc, ret, recs, waited,
                   wait, err_delay>>

\* 1203: time.sleep(stagger) ends; 1205-1208: first pass of the loop.
stagger_wake(i) ==
    /\ pc[i] = "stagger"
    /\ pc' = [pc EXCEPT ![i] = "enter"]
    /\ waited' = [waited EXCEPT ![i] = @ + Stagger(i)]
    /\ DispatchUnchanged
    /\ UNCHANGED <<dispatch, results, attempt, api_attempt, oracle_calls, last_err,
                   exc, ret, recs, wait, err_delay>>

\* A retry that sleeps the stagger again: the sleep of 1201-1203 inside the loop.
analyze_one_wake_restagger(i) ==
    /\ pc[i] = "retry_sleep"
    /\ pc' = [pc EXCEPT ![i] = IF Stagger(i) > 0 THEN "stagger" ELSE "enter"]
    /\ attempt' = [attempt EXCEPT ![i] = @ + 1]
    /\ DispatchUnchanged
    /\ wait' = [wait EXCEPT ![i] = None]
    /\ err_delay' = [err_delay EXCEPT ![i] = None]
    /\ UNCHANGED <<dispatch, results, api_attempt, oracle_calls, last_err, exc, ret, recs, waited>>

\* 1214 / 1222: time.sleep(wait) ends; next pass of the loop.
analyze_one_wake(i) ==
    /\ pc[i] = "retry_sleep"
    /\ pc' = [pc EXCEPT ![i] = "enter"]
    /\ attempt' = [attempt EXCEPT ![i] = @ + 1]
    /\ DispatchUnchanged
    /\ wait' = [wait EXCEPT ![i] = None]
    /\ err_delay' = [err_delay EXCEPT ![i] = None]
    /\ UNCHANGED <<dispatch, results, api_attempt, oracle_calls, last_err, exc, ret, recs, waited>>

\* 1233-1235: as_completed hands over a finished future; future.result()
\* re-raises what _analyze_one raised.
collect(i) ==
    /\ dispatch = "running"
    /\ pc[i] = "done"
    /\ pc' = [pc EXCEPT ![i] = "collected"]
    /\ DispatchUnchanged
    /\ UNCHANGED <<attempt, api_attempt, oracle_calls, last_err, exc, ret, recs, waited,
                   wait, err_delay>>
    /\ \/ /\ exc[i] = "none"
          /\ results' = [results EXCEPT ![i] = ret[i]]
          /\ dispatch' = dispatch
       \/ /\ exc[i] # "none"
          /\ dispatch' = "raised"
          /\ results' = results

\* 1237-1239: every future was collected: return results.
dispatch_return ==
    /\ dispatch = "running"
    /\ \A i \in Tickers : pc[i] = "collected"
    /\ dispatch' = "returned"
    /\ UNCHANGED <<other_vars, script, delays, settings, results, item_vars, env_vars, gate_vars>>

\* ------------------------------------------------ get_priority_tickers
\* ai_analyzer.py 727-1157.  A weight is an integer number of hundredths; a
\* factor score an integer number of tenths (3.5 is 35); a composite score an
\* integer number of thousandths (round(composite, 3), 1101).  The storage
\* answers every query of the scan.
Factors == {"trend", "momentum", "reversion", "volume", "strength"}
Sectors == {"NASDAQ100", "SP500", "MIDCAP", "SMALLCAP", "OTHER"}

\* config/tickers.py 548-576: ALL_TICKERS is sorted(set(...)), every ticker
\* once; TICKER_INDEX gives its tags in the order NASDAQ100, SP500, ETF,
\* MIDCAP, SMALLCAP.  The universe of the model: instrument t.
Universe == 1..NumInstruments
TICKER_INDEX(t) == IF t % 5 = 0 THEN <<"NASDAQ100", "SP500">> ELSE <<"SP500">>
IsEtf(t) == \E k \in 1..Len(TICKER_INDEX(t)) : TICKER_INDEX(t)[k] = "ETF"
\* 753: watchlist = [t for t in ALL_TICKERS if "ETF" not in TICKER_INDEX.get(t, [])]
watchlist == SelectSeq([t \in Universe |-> t], LAMBDA t : ~IsEtf(t))

\* 760: what _mf.fetch_realtime_price("^VIX") does: the import or the call
\* raises, it returns None (market_data.py:317), or a dict whose "price" is a
\* float (market_data.py:300), nan included.
VixOutcomes ==
    {[k |-> "raises", v |-> Num(0)], [k |-> "none", v |-> Num(0)], [k |-> "price", v |-> NaN]}
    \cup {[k |-> "price", v |-> Num(l)] : l \in {20, 21, 28, 29}}
\* 757: vix_level = 18.0
DefaultVix == 18

\* 757-763: the level after the try block; every exception is passed over.
VixLevel(o) == IF o.k = "price" THEN o.v ELSE Num(DefaultVix)

\* The regime test written with >=.
RegimeOf_ge(level) ==
    IF PyLe(Num(28), level) THEN "high_volatility"
    ELSE IF PyLe(Num(20), level) THEN "transitional"
    ELSE "trending"

\* 766-775: if vix_level > 28 ... elif vix_level > 20 ... else
RegimeOf(level) ==
    IF PyLt(Num(28), level) THEN "high_volatility"
    ELSE IF PyLt(Num(20), level) THEN "transitional"
    ELSE "trending"

\* 768, 771, 774: the weights of the regime
RegimeWeights(name) ==
    CASE name = "high_volatility" ->
            [trend |-> 15, momentum |-> 10, reversion |-> 40, volume |-> 15, strength |-> 20]
      [] name = "transitional" ->
            [trend |-> 25, momentum |-> 25, reversion |-> 20, volume |-> 15, strength |-> 15]
      [] OTHER ->
            [trend |-> 30, momentum |-> 30, reversion |-> 10, volume |-> 15, strength |-> 15]

IntMin(a, b) == IF b < a THEN b ELSE a
IntMax(a, b) == IF b > a THEN b ELSE a

\* The adjustment with 0.05 in both directions.
AdjustWeights_symmetric(w, adx) ==
    IF adx # None /\ PyLt(Num(30), Val(adx))
    THEN [w EXCEPT !.momentum = IntMin(@ + 5, 40), !.reversion = IntMax(@ - 5, 5)]
    ELSE IF adx # None /\ PyLt(Val(adx), Num(20))
         THEN [w EXCEPT !.reversion = IntMin(@ + 5, 45), !.momentum = IntMax(@ - 5, 5)]
         ELSE w

\* The adjustment without the floors and caps of 1074-1079.
AdjustWeights_unclamped(w, adx) ==
    IF adx # None /\ PyLt(Num(30), Val(adx))
    THEN [w EXCEPT !.momentum = @ + 5, !.reversion = @ - 5]
    ELSE IF adx # None /\ PyLt(Val(adx), Num(20))
         THEN [w EXCEPT !.reversion = @ + 10, !.momentum = @ - 10]
         ELSE w

\* 1070-1079: local_weights = dict(weights), adjusted by the instrument's ADX.
AdjustWeights(w, adx) ==
    IF adx # None /\ PyLt(Num(30), Val(adx))
    THEN [w EXCEPT !.momentum = IntMin(@ + 5, 40), !.reversion = IntMax(@ - 5, 5)]
    ELSE IF adx # None /\ PyLt(Val(adx), Num(20))
         THEN [w EXCEPT !.reversion = IntMin(@ + 10, 45), !.momentum = IntMax(@ - 10, 5)]
         ELSE w

\* 1082: w_sum = sum(local_weights.values())
WeightSum(w) == w.trend + w.momentum + w.reversion + w.volume + w.strength

\* 1083-1084: every weight divided by w_sum when w_sum > 0; the quotient v / s
\* is kept as the fraction [n |-> v, d |-> s].
Normalize(w) ==
    LET s == WeightSum(w)
    IN  [k \in Factors |-> [n |-> w[k], d |-> IF s > 0 THEN s ELSE 100]]

\* 1020-1037: f_strength from the ADX, in tenths
f_strength(adx) ==
    IF adx = None THEN 50
    ELSE LET a == Val(adx)
         IN  IF PyLt(Num(40), a) THEN 100
             ELSE IF PyLt(Num(35), a) THEN 90
             ELSE IF PyLt(Num(30), a) THEN 80
             ELSE IF PyLt(Num(25), a) THEN 70
             ELSE IF PyLt(Num(20), a) THEN 50
             ELSE IF PyLt(Num(15), a) THEN 35
             ELSE 20

\* a / b rounded to the nearest integer (a >= 0, b > 0)
RoundDiv(a, b) == (2 * a + b) \div (2 * b)

\* 1089-1097, 1101: the weighted sum times penalty_mult, not below 0, rounded
\* to thousandths.  f: factor scores in tenths, penalty in hundredths.
Composite(lw, f, penalty) ==
    LET d == lw["trend"].d
        total == lw["trend"].n * f.trend + lw["momentum"].n * f.momentum
                 + lw["reversion"].n * f.reversion + lw["volume"].n * f.volume
                 + lw["strength"].n * f.strength
    IN  RoundDiv(IntMax(total * penalty, 0), d)

\* What the queries of 791-833 find for one instrument.  kind: "no_stock" (791),
\* "no_indicator" inside the staleness window (804), "no_prices" (827),
\* "no_price" (current_price is None or 0, 832), "scored".  For a scored
\* instrument: adx_14 and the factor scores F1-F4 after the multipliers of
\* 1054-1065 (tenths), and penalty_mult (hundredths).
AbsentKinds == {"no_stock", "no_indicator", "no_prices", "no_price"}
Indicators ==
    { [adx |-> None, trend |-> 50, momentum |-> 50, reversion |-> 50, volume |-> 50, penalty |-> 100],
      [adx |-> Some(Num(10)), trend |-> 20, momentum |-> 20, reversion |-> 80, volume |-> 50, penalty |-> 100],
      [adx |-> Some(Num(25)), trend |-> 60, momentum |-> 60, reversion |-> 40, volume |-> 50, penalty |-> 100],
      [adx |-> Some(Num(35)), trend |-> 80, momentum |-> 80, reversion |-> 20, volume |-> 60, penalty |-> 100],
      [adx |-> Some(NaN), trend |-> 80, momentum |-> 40, reversion |-> 20, volume |-> 50, penalty |-> 75] }

FactorScores(ind) ==
    [trend |-> ind.trend, momentum |-> ind.momentum, reversion |-> ind.reversion,
     volume |-> ind.volume, strength |-> f_strength(ind.adx)]

\* Values of the argument max_count: under, about and over the universe's size.
MaxCounts == {2, 5, 20}

\* 1114: sector_cap = max(3, max_count // 5)
SectorCap(mc) == IntMax(3, mc \div 5)

\* 1122-1123: first tag that is not ETF, else OTHER
PrimarySector(category) ==
    LET c == SelectSeq(category, LAMBDA x : x # "ETF")
    IN  IF c = <<>> THEN "OTHER" ELSE c[1]

\* The insertion of a sort that puts an item before the items of equal score.
RECURSIVE InsertDesc_ties_first(_, _)
InsertDesc_ties_first(e, q) ==
    IF q = <<>> THEN <<e>>
    ELSE IF Head(q).score > e.score THEN <<Head(q)>> \o InsertDesc_ties_first(e, Tail(q))
    ELSE <<e>> \o q

\* 1111: stock_scores.sort(key=score, reverse=True); the sort is stable.
RECURSIVE InsertDesc(_, _)
InsertDesc(e, q) ==
    IF q = <<>> THEN <<e>>
    ELSE IF Head(q).score >= e.score THEN <<Head(q)>> \o InsertDesc(e, Tail(q))
    ELSE <<e>> \o q
RECURSIVE SortDesc(_)
SortDesc(q) ==
    IF q = <<>> THEN <<>>
    ELSE InsertDesc(q[Len(q)], SortDesc(SubSeq(q, 1, Len(q) - 1)))

NoWeights == [k \in Factors |-> [n |-> 0, d |-> 100]]

\* No call of get_priority_tickers is under way.
PrioIdle ==
    /\ ppc = "idle"
    /\ max_count = 0
    /\ vix_data = [k |-> "none", v |-> Num(0)]
    /\ vix_level = Num(DefaultVix)
    /\ regime_name = "trending"
    /\ weights = RegimeWeights("trending")
    /\ scan = 1
    /\ cur = [ticker |-> 0, kind |-> "none", raw_adx |-> None]
    /\ local_weights = NoWeights
    /\ stock_scores = <<>>
    /\ absent = {}
    /\ sel = 1
    /\ selected = <<>>
    /\ sector_counts = [s \in Sectors |-> 0]

\* 756-777, STEP 0: the VIX is fetched, the regime and its weights chosen.
detect_regime ==
    /\ ppc = "start"
    /\ \E o \in VixOutcomes :
          /\ vix_data' = o
          /\ vix_level' = VixLevel(o)
          /\ regime_name' = RegimeOf(VixLevel(o))
          /\ weights' = RegimeWeights(RegimeOf(VixLevel(o)))
    /\ ppc' = "scoring"
    /\ UNCHANGED <<max_count, scan, cur, local_weights, stock_scores, absent, sel,
                   selected, sector_counts>>
    /\ UNCHANGED <<core_vars, alert_vars, ext_vars>>

\* An instrument without data appended with a score of zero.
ScanAbsent_zero(t) ==
    stock_scores' = Append(stock_scores, [ticker |-> t, score |-> 0, category |-> TICKER_INDEX(t)])

\* 792, 805, 828, 833: continue
ScanAbsent(t) == stock_scores' = stock_scores

\* 790-1108, one pass of the loop of STEP 1 for the next ticker of the watchlist.
score_ticker ==
    /\ ppc = "scoring"
    /\ scan <= Len(watchlist)
    /\ LET t == watchlist[scan]
       IN  \/ \E kind \in AbsentKinds :
                 /\ cur' = [cur EXCEPT !.ticker = t, !.kind = kind]
                 /\ absent' = absent \cup {t}
                 /\ ScanAbsent(t)
                 /\ UNCHANGED local_weights
           \/ \E ind \in Indicators :
                 LET lw == Normalize(AdjustWeights(weights, ind.adx))
                 IN  /\ cur' = [ticker |-> t, kind |-> "scored", raw_adx |-> ind.adx]
                     /\ local_weights' = lw
                     /\ stock_scores' = Append(stock_scores,
                            [ticker |-> t,
                             score |-> Composite(lw, FactorScores(ind), ind.penalty),
                             category |-> TICKER_INDEX(t)])
                     /\ UNCHANGED absent
    /\ scan' = scan + 1
    /\ UNCHANGED <<ppc, max_count, vix_data, vix_level, regime_name, weights, sel,
                   selected, sector_counts>>
    /\ UNCHANGED <<core_vars, alert_vars, ext_vars>>

\* 1111-1116, STEP 2 and the start of STEP 3: the scores are sorted, max_count
\* is read for the first time.
sort_scores ==
    /\ ppc = "scoring"
    /\ scan > Len(watchlist)
    /\ stock_scores' = SortDesc(stock_scores)
    /\ max_count' \in MaxCounts
    /\ sel' = 1
    /\ selected' = <<>>
    /\ sector_counts' = [s \in Sectors |-> 0]
    /\ ppc' = "selecting"
    /\ UNCHANGED <<vix_data, vix_level, regime_name, weights, scan, cur, local_weights, absent>>
    /\ UNCHANGED <<core_vars, alert_vars, ext_vars>>

\* The pass of the selection loop without the test of 1126.
SelectItem_uncapped(item) ==
    LET ps == PrimarySector(item.category)
    IN  /\ selected' = Append(selected, item.ticker)
        /\ sector_counts' = [sector_counts EXCEPT ![ps] = @ + 1]

\* 1121-1131: the item is skipped when its primary sector is at the cap, else
\* appended and counted.
SelectItem(item) ==
    LET ps == PrimarySector(item.category)
        count == sector_counts[ps]
    IN  IF count >= SectorCap(max_count)
        THEN UNCHANGED <<selected, sector_counts>>
        ELSE /\ selected' = Append(selected, item.ticker)
             /\ sector_counts' = [sector_counts EXCEPT ![ps] = count + 1]

\* 1118-1131: one pass of the loop of STEP 3.
select_step ==
    /\ ppc = "selecting"
    /\ sel <= Len(stock_scores)
    /\ Len(selected) < max_count
    /\ SelectItem(stock_scores[sel])
    /\ sel' = sel + 1
    /\ UNCHANGED <<ppc, max_count, vix_data, vix_level, regime_name, weights, scan, cur,
                   local_weights, stock_scores, absent>>
    /\ UNCHANGED <<core_vars, alert_vars, ext_vars>>

\* 1119-1120 break or the list is exhausted; 1133-1157: log, return selected.
select_return ==
    /\ ppc = "selecting"
    /\ sel > Len(stock_scores) \/ Len(selected) >= max_count
    /\ ppc' = "returned"
    /\ UNCHANGED <<max_count, vix_data, vix_level, regime_name, weights, scan, cur,
                   local_weights, stock_scores, absent, sel, selected, sector_counts>>
    /\ UNCHANGED <<core_vars, alert_vars, ext_vars>>

\* ---------------------------------------------------------- AlertManager
\* notifications/alert_manager.py.  clock is the reading of _now() in minutes;
\* one run of a check takes no time.
KnownStocks == {"AAPL"}
SetAlertTickers == KnownStocks \cup {"ZZZZ"}

\* 34: VALID_ALERT_TYPES
VALID_ALERT_TYPES == {"STOP_LOSS", "TARGET_PRICE", "VOLUME_SURGE", "TRAILING_STOP"}
\* the alert_type arguments of set_alert
AlertTypeInputs == VALID_ALERT_TYPES \cup {"INVALID_TYPE"}

\* 68: COOLDOWN_MAP.get(alert_type, COOLDOWN_MINUTES), with COOLDOWN_MAP of 53-58
CooldownOf(alert_type) ==
    CASE alert_type = "STOP_LOSS" -> 15
      [] alert_type = "TRAILING_STOP" -> 15
      [] alert_type = "TARGET_PRICE" -> 60
      [] alert_type = "VOLUME_SURGE" -> 360
      [] OTHER -> COOLDOWN_MINUTES

\* 66-81: a row of the stock and type with triggered_at >= now - cooldown.
\* The session does not autoflush (connection.py:60): the query sees the
\* committed rows.
is_in_cooldown(stock, alert_type) ==
    \E r \in alert_history :
        /\ r.stock = stock /\ r.alert_type = alert_type
        /\ r.triggered_at >= clock - CooldownOf(alert_type)

\* 97-150: _fire_alert for each of the stock's conditions that are met: a row
\* per condition that is not in cooldown.
FiredRows(due) ==
    { [stock |-> d.stock, alert_type |-> d.alert_type, triggered_at |-> clock] :
        d \in {x \in due : ~is_in_cooldown(x.stock, x.alert_type)} }

\* threshold of set_alert and of the fallback recommendation; current_price of
\* a holding (None: 173)
AlertThresholds == {100}
HoldingPrices == {None, Some(90), Some(110)}

ActiveAlerts(stock) == {a \in price_alerts : a.stock = stock}

\* 176-207: the active PriceAlert rows of the stock, else the stop_loss and
\* target_price of its latest recommendation (fb: which of the two it has).
Candidates(stock, fb) ==
    IF ActiveAlerts(stock) # {}
    THEN {[alert_type |-> a.alert_type, threshold_value |-> a.threshold_value] :
            a \in ActiveAlerts(stock)}
    ELSE {[alert_type |-> ty, threshold_value |-> th] : ty \in fb, th \in AlertThresholds}

\* 209-214: the fire condition of a candidate
ConditionMet(c, current_price) ==
    \/ c.alert_type = "STOP_LOSS" /\ current_price <= c.threshold_value
    \/ c.alert_type = "TARGET_PRICE" /\ current_price >= c.threshold_value

AlertIdle ==
    /\ clock = 0
    /\ alert_history = {}
    /\ price_alerts = {}
    /\ set_call = [alert_type |-> "none", ret |-> TRUE, session |-> FALSE, changed |-> FALSE]

\* get_db commits at the end of the with block (connection.py:124) or rolls
\* back and re-raises: the rows of the run are stored or none is.
StoreRows(rows) ==
    /\ Cardinality(alert_history \cup rows) <= MaxAlerts
    /\ \/ alert_history' = alert_history \cup rows
       \/ alert_history' = alert_history

\* 171-278, one holding: nothing without a current price (173); else the
\* candidates whose condition is met, and the trailing stop when the drawdown
\* from the high since the purchase reaches the stop (tr).
DueOf(stock, current_price, fb, tr) ==
    IF current_price = None THEN {}
    ELSE {[stock |-> stock, alert_type |-> c.alert_type] :
            c \in {x \in Candidates(stock, fb) : ConditionMet(x, Val(current_price))}}
         \cup (IF tr THEN {[stock |-> stock, alert_type |-> "TRAILING_STOP"]} ELSE {})

\* 154-280: check_portfolio_alerts, for every holding its candidates and the
\* trailing stop.
check_portfolio_alerts ==
    /\ \E cp \in [KnownStocks -> HoldingPrices],
          fb \in [KnownStocks -> SUBSET {"STOP_LOSS", "TARGET_PRICE"}],
          trailing \in SUBSET KnownStocks :
          StoreRows(FiredRows(
              UNION {DueOf(s, cp[s], fb[s], s \in trailing) : s \in KnownStocks}))
    /\ UNCHANGED <<clock, price_alerts, set_call>>
    /\ UNCHANGED <<core_vars, prio_vars, ext_vars>>

\* 282-344: check_volume_surge, for every active stock whose volume of today
\* is at least threshold times its 20-day mean.
check_volume_surge ==
    /\ \E surge \in SUBSET KnownStocks :
          StoreRows(FiredRows({[stock |-> s, alert_type |-> "VOLUME_SURGE"] : s \in surge}))
    /\ UNCHANGED <<clock, price_alerts, set_call>>
    /\ UNCHANGED <<core_vars, prio_vars, ext_vars>>

\* 407-457: set_alert(ticker, alert_type, threshold_value)
set_alert(ticker, alert_type, threshold_value) ==
    /\ UNCHANGED <<clock, alert_history>>
    /\ UNCHANGED <<core_vars, prio_vars, ext_vars>>
    /\ IF alert_type \notin VALID_ALERT_TYPES
       THEN \* 419-421
            /\ set_call' = [alert_type |-> alert_type, ret |-> FALSE, session |-> FALSE,
                            changed |-> FALSE]
            /\ price_alerts' = price_alerts
       ELSE \/ \* 425-428: no such stock
               /\ ticker \notin KnownStocks
               /\ set_call' = [alert_type |-> alert_type, ret |-> FALSE, session |-> TRUE,
                               changed |-> FALSE]
               /\ price_alerts' = price_alerts
            \/ \* 455-457: the storage raised, the session rolled back
               /\ set_call' = [alert_type |-> alert_type, ret |-> FALSE, session |-> TRUE,
                               changed |-> FALSE]
               /\ price_alerts' = price_alerts
            \/ \* 430-454: the row of the stock and type is updated or created
               /\ ticker \in KnownStocks
               /\ price_alerts' =
                     {a \in price_alerts : ~(a.stock = ticker /\ a.alert_type = alert_type)}
                     \cup {[stock |-> ticker, alert_type |-> alert_type,
                            threshold_value |-> threshold_value]}
               /\ set_call' = [alert_type |-> alert_type, ret |-> TRUE, session |-> TRUE,
                               changed |-> price_alerts' # price_alerts]

\* time passes between two runs of the scheduler job
tick ==
    /\ clock + TickMinutes <= MaxTime
    /\ clock' = clock + TickMinutes
    /\ UNCHANGED <<alert_history, price_alerts, set_call>>
    /\ UNCHANGED <<core_vars, prio_vars, ext_vars>>

\* ------------------------------------------- _parse_response, the scores
\* ai_analyzer.py 558-604.  A score is a float in hundredths (7.21 is 721),
\* None when the answer has no such field or null.
ScoreFields == {"technical_score", "fundamental_score", "sentiment_score"}
\* what the oracle reports as weighted_score and as a sub-score: in range,
\* out of range, nan (json.loads reads NaN), absent
ReportedComposites == {None, Some(NaN), Some(Num(0)), Some(Num(650)), Some(Num(900))}
ReportedScores ==
    {None, Some(NaN), Some(Num(-100)), Some(Num(500)), Some(Num(721)), Some(Num(1000)),
     Some(Num(2000))}

\* 576: expected_ws = ts * 0.45 + fs * 0.30 + ss * 0.25, in 1/10000
ExpectedWs(ts, fs, ss) ==
    IF ts.nan \/ fs.nan \/ ss.nan THEN NaN ELSE Num(45 * ts.v + 30 * fs.v + 25 * ss.v)

\* 579: round(expected_ws, 2), from 1/10000 to hundredths
Round2(e) == Num((e.v + 50) \div 100)

\* The test of 577 written with >=.
Discrepant_ge(ws, e) ==
    ~ws.nan /\ ~e.nan /\ (ws.v * 100 - e.v >= 15000 \/ e.v - ws.v * 100 >= 15000)

\* 577: abs(ws - expected_ws) > 1.5; False when either is nan
Discrepant(ws, e) ==
    ~ws.nan /\ ~e.nan /\ (ws.v * 100 - e.v > 15000 \/ e.v - ws.v * 100 > 15000)

\* 570-579: the consistency check of weighted_score on the dict d
CheckWeightedScore(d) ==
    IF /\ d.weighted_score # None
       /\ d.technical_score # None /\ d.fundamental_score # None /\ d.sentiment_score # None
    THEN LET expected_ws == ExpectedWs(Val(d.technical_score), Val(d.fundamental_score),
                                       Val(d.sentiment_score))
         IN  IF Discrepant(Val(d.weighted_score), expected_ws)
             THEN [d EXCEPT !.weighted_score = Some(Round2(expected_ws))]
             ELSE d
    ELSE d

\* 601-602: data[score_field] = max(0.0, min(10.0, float(val))) when not None
ClampScore(val) ==
    IF val = None THEN None ELSE Some(PyMax(Num(0), PyMin(Num(1000), Val(val))))

\* No call of _parse_response is followed through its scores.
ScoresIdle ==
    /\ spc = "idle"
    /\ reported = [weighted_score |-> None, technical_score |-> None,
                   fundamental_score |-> None, sentiment_score |-> None]
    /\ data = reported

\* 570-579
check_weighted_score ==
    /\ spc = "defaults"
    /\ data' = CheckWeightedScore(data)
    /\ spc' = "checked"
    /\ UNCHANGED reported
    /\ UNCHANGED <<core_vars, prio_vars, alert_vars, bt_vars, cache_vars, factor_vars>>

\* 598-604: the sub-scores are clamped, data is returned
clamp_scores ==
    /\ spc = "checked"
    /\ data' = [data EXCEPT !.technical_score = ClampScore(@),
                            !.fundamental_score = ClampScore(@),
                            !.sentiment_score = ClampScore(@)]
    /\ spc' = "returned"
    /\ UNCHANGED reported
    /\ UNCHANGED <<core_vars, prio_vars, alert_vars, bt_vars, cache_vars, factor_vars>>

\* -------------------------------------------------------------- Backtester
\* backtester.py 63-133.  Time is counted in days; a PriceHistory row of
\* interval "1d" is the close of its day; a return is in 1/10000 of a percent.
RecIds == {1, 2}
\* days with a daily row, when the market has one, and the closes it can have
PriceDays == {5, 11, 30}
Closes == {90, 110}
\* price_at_recommendation of the first recommendation, made on day 0; the
\* second is made on day 1 at 80
RecPrices == {None, Some(0), Some(-5), Some(100)}

\* no call since the day began / a call returned n / a call raised
NoCall == [kind |-> "none", n |-> 0]
Returned(n) == [kind |-> "returned", n |-> n]
CallRaised == [kind |-> "raised", n |-> 0]

\* 37: LOOKBACK_WINDOWS, the default of lookback_windows (73)
LOOKBACK_WINDOWS == {5, 10, 30}

\* 80-88: outcome_return == None and price_at_recommendation != None
Pending(rec) == rec.outcome_return = None /\ rec.price_at_recommendation # None

\* The test of 97 written to skip a zero price only.
Abnormal_zero_only(price_at_rec) == price_at_rec = 0

\* 97: price_at_rec <= 0
Abnormal(price_at_rec) == price_at_rec <= 0

\* 109-120: the first daily row with timestamp >= target_date among the rows
\* stored on day t, {} when there is none
FirstRowFrom(target_date, t) ==
    LET rows == {d \in PriceDays : d <= t /\ d >= target_date /\ market[d] # None}
    IN  IF rows = {} THEN None
        ELSE Some(CHOOSE d \in rows : \A e \in rows : d <= e)

\* The loop of 104 taking the windows longest first.
RECURSIVE ScanWindows_longest_first(_, _, _, _)
ScanWindows_longest_first(rec, t, windows, outcome_close) ==
    IF windows = {} THEN outcome_close
    ELSE LET days == CHOOSE d \in windows : \A e \in windows : d >= e
             target_date == rec.recommendation_date + days
             row == FirstRowFrom(target_date, t)
         IN  IF t < target_date
             THEN ScanWindows_longest_first(rec, t, windows \ {days}, outcome_close)
             ELSE IF row # None
                  THEN ScanWindows_longest_first(rec, t, windows \ {days}, market[Val(row)])
                  ELSE ScanWindows_longest_first(rec, t, windows \ {days}, outcome_close)

\* 104-121: for days in sorted(windows), shortest first; a window not yet
\* elapsed is passed over (106-107), a row found overwrites outcome_close (120-121)
RECURSIVE ScanWindows(_, _, _, _)
ScanWindows(rec, t, windows, outcome_close) ==
    IF windows = {} THEN outcome_close
    ELSE LET days == CHOOSE d \in windows : \A e \in windows : d <= e
             target_date == rec.recommendation_date + days
             row == FirstRowFrom(target_date, t)
         IN  IF t < target_date
             THEN ScanWindows(rec, t, windows \ {days}, outcome_close)
             ELSE IF row # None
                  THEN ScanWindows(rec, t, windows \ {days}, market[Val(row)])
                  ELSE ScanWindows(rec, t, windows \ {days}, outcome_close)

\* 126, 128: round(((outcome_close - price_at_rec) / price_at_rec
\*                   - TRADING_COST) * 100, 4)
OutcomeReturn(outcome_close, price_at_rec) ==
    RoundDiv((outcome_close - price_at_rec) * 1000000, price_at_rec)
        - TRADING_COST * 1000

\* 92-129: whether the pass over pending sets the outcome of rec on day t
Updates(rec, t) ==
    /\ Pending(rec)
    /\ ~Abnormal(Val(rec.price_at_recommendation))
    /\ ScanWindows(rec, t, LOOKBACK_WINDOWS, None) # None

\* 126-128: rec with its outcome set
WithOutcome(rec, t) ==
    LET outcome_close == ScanWindows(rec, t, LOOKBACK_WINDOWS, None)
    IN  [rec EXCEPT !.outcome_price = outcome_close,
                    !.outcome_return =
                        Some(OutcomeReturn(Val(outcome_close),
                                           Val(rec.price_at_recommendation)))]

\* 73-133: one call of update_outcomes that commits
update_outcomes ==
    /\ brecs' = [r \in RecIds |->
                    IF Updates(brecs[r], today) THEN WithOutcome(brecs[r], today)
                    ELSE brecs[r]]
    /\ bt_ret' = Returned(Cardinality({r \in RecIds : Updates(brecs[r], today)}))
    /\ UNCHANGED <<today, market>>
    /\ UNCHANGED <<core_vars, prio_vars, alert_vars, score_vars, cache_vars, factor_vars>>

\* 78, 133 with connection.py 113-130: the commit at the end of the with block
\* raises; the session is rolled back and the call raises
update_outcomes_raises ==
    /\ bt_ret' = CallRaised
    /\ UNCHANGED <<today, market, brecs>>
    /\ UNCHANGED <<core_vars, prio_vars, alert_vars, score_vars, cache_vars, factor_vars>>

\* a day passes
bt_tick ==
    /\ today < MaxDay
    /\ today' = today + 1
    /\ bt_ret' = NoCall
    /\ UNCHANGED <<market, brecs>>
    /\ UNCHANGED <<core_vars, prio_vars, alert_vars, score_vars, cache_vars, factor_vars>>

\* No recommendation awaits its outcome.
BtIdle ==
    /\ today = 0
    /\ market = <<>>
    /\ brecs = <<>>
    /\ bt_ret = NoCall

\* ------------------------------------------ MarketDataFetcher._get_ticker
\* market_data.py 37-49, called through fetch_realtime_price (286) by every
\* dispatch worker for the symbols of ai_analyzer.py 277 in turn.  The cache
\* is one dict shared by the workers; no lock guards it.
Workers == 1..MaxConcurrency
\* ai_analyzer.py 277: for symbol in ["SPY", "QQQ", "^VIX", "^TNX"]
MarketSymbols == <<"SPY", "QQQ", "^VIX", "^TNX">>
\* keys the cache holds for other symbols when the dispatch starts
OtherKeys == {0, MAX_CACHE_SIZE - 1}

\* 45: len(self._cache)
CacheLen == cache.others + Cardinality(cache.syms)
\* the symbol worker w asks for
SymbolOf(w) == MarketSymbols[tsym[w]]

\* 44: if symbol not in self._cache
get_ticker_test(w) ==
    /\ tpc[w] = "test"
    /\ tpc' = [tpc EXCEPT ![w] = IF SymbolOf(w) \notin cache.syms THEN "len" ELSE "return"]
    /\ UNCHANGED <<cache, tsym, failed>>
    /\ UNCHANGED <<core_vars, prio_vars, alert_vars, score_vars, bt_vars, factor_vars>>

\* 45: if len(self._cache) >= self.MAX_CACHE_SIZE
get_ticker_len(w) ==
    /\ tpc[w] = "len"
    /\ tpc' = [tpc EXCEPT ![w] = IF CacheLen >= MAX_CACHE_SIZE THEN "clear" ELSE "insert"]
    /\ UNCHANGED <<cache, tsym, failed>>
    /\ UNCHANGED <<core_vars, prio_vars, alert_vars, score_vars, bt_vars, factor_vars>>

\* 46: self._cache.clear()
get_ticker_clear(w) ==
    /\ tpc[w] = "clear"
    /\ cache' = [others |-> 0, syms |-> {}]
    /\ tpc' = [tpc EXCEPT ![w] = "insert"]
    /\ UNCHANGED <<tsym, failed>>
    /\ UNCHANGED <<core_vars, prio_vars, alert_vars, score_vars, bt_vars, factor_vars>>

\* 48: self._cache[symbol] = yf.Ticker(symbol)
get_ticker_insert(w) ==
    /\ tpc[w] = "insert"
    /\ cache' = [cache EXCEPT !.syms = @ \cup {SymbolOf(w)}]
    /\ tpc' = [tpc EXCEPT ![w] = "return"]
    /\ UNCHANGED <<tsym, failed>>
    /\ UNCHANGED <<core_vars, prio_vars, alert_vars, score_vars, bt_vars, factor_vars>>

\* 49: return self._cache[symbol], KeyError when the key is gone; 286-313:
\* fetch_realtime_price catches it and returns None.  ai_analyzer.py 277: the
\* worker goes on to its next symbol.
get_ticker_return(w) ==
    /\ tpc[w] = "return"
    /\ failed' = [failed EXCEPT ![w] =
                     IF SymbolOf(w) \in cache.syms THEN @ ELSE @ \cup {SymbolOf(w)}]
    /\ IF tsym[w] < Len(MarketSymbols)
       THEN tsym' = [tsym EXCEPT ![w] = @ + 1] /\ tpc' = [tpc EXCEPT ![w] = "test"]
       ELSE tsym' = tsym /\ tpc' = [tpc EXCEPT ![w] = "done"]
    /\ UNCHANGED cache
    /\ UNCHANGED <<core_vars, prio_vars, alert_vars, score_vars, bt_vars, factor_vars>>

\* No worker asks for a ticker object.
CacheIdle ==
    /\ cache = [others |-> 0, syms |-> {}]
    /\ tpc = <<>>
    /\ tsym = <<>>
    /\ failed = <<>>

\* ------------------------------------- get_priority_tickers, the factors
\* ai_analyzer.py 835-1097 for one instrument.  A factor score is in 1/10000
\* (10.0 is 100000), penalty_mult in hundredths.  A nullable column is {} or
\* {n}; prices and volumes are integers, StochRSI is in hundredths.
Truthy(o) == o # None /\ Val(o) # 0

\* ind, the latest TechnicalIndicator row, with the current price at 1000
IndRows ==
    [ma_20 : {Some(900), Some(1100)}, ma_50 : {Some(850), Some(1150)},
     ma_200 : {None, Some(800), Some(1200)},
     bb_upper : {None, Some(1030)}, bb_lower : {Some(999), Some(900)},
     bb_middle : {Some(1010)},
     macd_hist : {None, Some(-1), Some(2)},
     rsi_14 : {None, Some(20), Some(60), Some(80)},
     stoch_rsi_k : {None, Some(10)}, stoch_rsi_d : {Some(5)},
     volume_ma_20 : {Some(1000)}, obv : {Some(100)},
     adx_14 : {None, Some(Num(10)), Some(Num(45))}]
\* prev_ind, the row before it: none, one the latest row rose from, one it
\* fell from
PrevInds ==
    {None,
     Some([ma_200 |-> Some(790), macd_hist |-> Some(-1), stoch_rsi_k |-> Some(4),
           stoch_rsi_d |-> Some(5), bb_upper |-> Some(1040), bb_lower |-> Some(990),
           bb_middle |-> Some(1010), obv |-> Some(50)]),
     Some([ma_200 |-> Some(1300), macd_hist |-> Some(1), stoch_rsi_k |-> Some(9),
           stoch_rsi_d |-> Some(5), bb_upper |-> Some(1012), bb_lower |-> Some(1008),
           bb_middle |-> Some(1010), obv |-> Some(150)])}
\* closes of price_rows, latest first: one row, six rising days, six falling
\* days
ClosesLatestFirst ==
    {<<1000>>, <<1000, 990, 980, 970, 940, 900>>, <<1000, 1010, 1020, 1030, 1040, 1050>>}
\* price_rows[0].volume
LatestVolumes == {None, Some(500), Some(3000)}

\* 865-868: bb_pct as the fraction n / d, 50.0 unless the bands are apart
bb_pct(ind, current_price) ==
    IF Truthy(ind.bb_upper) /\ Truthy(ind.bb_lower)
          /\ Val(ind.bb_upper) - Val(ind.bb_lower) > 0
    THEN [n |-> (current_price - Val(ind.bb_lower)) * 100,
          d |-> Val(ind.bb_upper) - Val(ind.bb_lower)]
    ELSE [n |-> 50, d |-> 1]

\* 840-872: F1
f_trend(ind, prev_ind, current_price) ==
    LET t1a == IF Truthy(ind.ma_20) /\ current_price > Val(ind.ma_20) THEN 10000 ELSE 0
        t1b == IF Truthy(ind.ma_50) /\ current_price > Val(ind.ma_50) THEN 10000 ELSE 0
        t1c == IF Truthy(ind.ma_200) /\ current_price > Val(ind.ma_200) THEN 10000 ELSE 0
        t2 == IF Truthy(ind.ma_20) /\ Truthy(ind.ma_50) /\ Truthy(ind.ma_200)
                    /\ Val(ind.ma_20) > Val(ind.ma_50) /\ Val(ind.ma_50) > Val(ind.ma_200)
              THEN 20000 ELSE 0
        t3 == IF Truthy(ind.ma_50) /\ Truthy(ind.ma_200)
                    /\ Val(ind.ma_50) > Val(ind.ma_200)
              THEN 15000 ELSE 0
        t4 == IF prev_ind # None /\ Truthy(ind.ma_200) /\ Truthy(Val(prev_ind).ma_200)
                    /\ Val(ind.ma_200) > Val(Val(prev_ind).ma_200)
              THEN 15000 ELSE 0
        b == bb_pct(ind, current_price)
        t5 == IF b.d # 1 /\ b.n > 70 * b.d THEN 10000 ELSE 0
    IN  IntMin(t1a + t1b + t1c + t2 + t3 + t4 + t5, 100000)

\* 882-885: is_golden_cross
is_golden_cross(ind, prev_ind) ==
    /\ ind.macd_hist # None
    /\ prev_ind # None /\ Val(prev_ind).macd_hist # None
    /\ Val(Val(prev_ind).macd_hist) <= 0 /\ 0 < Val(ind.macd_hist)

\* 880-892: macd_pts
macd_pts(ind, prev_ind) ==
    IF ind.macd_hist = None THEN 0
    ELSE IF is_golden_cross(ind, prev_ind) THEN 30000
    ELSE IF Val(ind.macd_hist) > 0
         THEN IF prev_ind # None /\ Val(prev_ind).macd_hist # None
                    /\ Val(ind.macd_hist) > Val(Val(prev_ind).macd_hist)
              THEN 20000 ELSE 15000
    ELSE 0

\* 895-903: Mo2, the RSI momentum zone
rsi_zone_pts(ind) ==
    IF ind.rsi_14 = None THEN 0
    ELSE LET r == Val(ind.rsi_14)
         IN  IF 55 <= r /\ r <= 65 THEN 25000
             ELSE IF 50 <= r /\ r < 55 THEN 20000
             ELSE IF 45 <= r /\ r < 50 THEN 10000
             ELSE IF 65 < r /\ r <= 70 THEN 15000
             ELSE 0

\* 906-915: Mo3, roc_5d against 5, 3, 1 and 0 percent
roc_pts(closes, current_price) ==
    IF Len(closes) >= 5 /\ closes[5] > 0
    THEN LET chg == (current_price - closes[5]) * 100
         IN  IF chg > 5 * closes[5] THEN 25000
             ELSE IF chg > 3 * closes[5] THEN 20000
             ELSE IF chg > closes[5] THEN 10000
             ELSE IF chg > 0 THEN 5000
             ELSE 0
    ELSE 0

\* 918-927: trap_factor in hundredths
trap_factor(ind, prev_ind, current_price, latest_volume) ==
    IF is_golden_cross(ind, prev_ind)
    THEN LET thin == Truthy(latest_volume) /\ Truthy(ind.volume_ma_20)
                        /\ Val(latest_volume) * 10 < Val(ind.volume_ma_20) * 8
             below == Truthy(ind.ma_20) /\ Truthy(ind.ma_50)
                         /\ current_price < Val(ind.ma_20)
                         /\ current_price < Val(ind.ma_50)
         IN  ((IF thin THEN 70 ELSE 100) * (IF below THEN 60 ELSE 100)) \div 100
    ELSE 100

\* 877-930: F2 before the global penalties
f_momentum(ind, prev_ind, closes, current_price, latest_volume) ==
    LET sum == IntMin(macd_pts(ind, prev_ind), 30000) + rsi_zone_pts(ind)
                  + roc_pts(closes, current_price)
    IN  IntMin((sum * trap_factor(ind, prev_ind, current_price, latest_volume)) \div 100,
               100000)

\* 938-946: Re1
rsi_oversold_pts(ind) ==
    IF ind.rsi_14 = None THEN 0
    ELSE LET r == Val(ind.rsi_14)
         IN  IF r < 25 THEN 35000 ELSE IF r < 30 THEN 30000
             ELSE IF r < 35 THEN 20000 ELSE IF r < 40 THEN 10000 ELSE 0

\* 949-956: Re2
stoch_pts(ind, prev_ind) ==
    IF ind.stoch_rsi_k # None /\ ind.stoch_rsi_d # None
          /\ Val(ind.stoch_rsi_k) < 20 /\ Val(ind.stoch_rsi_d) < 20
    THEN IF prev_ind # None /\ Val(prev_ind).stoch_rsi_k # None
               /\ Val(prev_ind).stoch_rsi_d # None
               /\ Val(Val(prev_ind).stoch_rsi_k) <= Val(Val(prev_ind).stoch_rsi_d)
               /\ Val(ind.stoch_rsi_k) > Val(ind.stoch_rsi_d)
         THEN 25000 ELSE 10000
    ELSE 0

\* 959-964: Re3
bb_low_pts(ind, current_price) ==
    LET b == bb_pct(ind, current_price)
    IN  IF b.n < 10 * b.d THEN 25000
        ELSE IF b.n < 20 * b.d THEN 20000
        ELSE IF b.n < 30 * b.d THEN 10000
        ELSE 0

\* 967-977: Re4
squeeze_pts(ind, prev_ind) ==
    IF Truthy(ind.bb_upper) /\ Truthy(ind.bb_lower) /\ Truthy(ind.bb_middle)
          /\ Val(ind.bb_middle) > 0
          /\ prev_ind # None /\ Truthy(Val(prev_ind).bb_upper)
          /\ Truthy(Val(prev_ind).bb_lower) /\ Truthy(Val(prev_ind).bb_middle)
          /\ Val(Val(prev_ind).bb_middle) > 0
    THEN LET w == Val(ind.bb_upper) - Val(ind.bb_lower)
             m == Val(ind.bb_middle)
             pw == Val(Val(prev_ind).bb_upper) - Val(Val(prev_ind).bb_lower)
             pm == Val(Val(prev_ind).bb_middle)
         IN  IF w * 100 < 4 * m /\ w * pm < pw * m THEN 15000
             ELSE IF w * 100 < 6 * m THEN 5000
             ELSE 0
    ELSE 0

\* 935-979: F3 before the global penalties
f_reversion(ind, prev_ind, current_price) ==
    IntMin(rsi_oversold_pts(ind) + stoch_pts(ind, prev_ind)
              + bb_low_pts(ind, current_price) + squeeze_pts(ind, prev_ind), 100000)

\* 985-1001: f_volume from the volume ratio
volume_base(ind, latest_volume) ==
    IF Truthy(latest_volume) /\ Truthy(ind.volume_ma_20) /\ Val(ind.volume_ma_20) > 0
    THEN LET lv == Val(latest_volume) * 10
             ma == Val(ind.volume_ma_20)
         IN  IF lv > 25 * ma THEN 100000
             ELSE IF lv > 20 * ma THEN 90000
             ELSE IF lv > 15 * ma THEN 80000
             ELSE IF lv > 12 * ma THEN 70000
             ELSE IF lv > 8 * ma THEN 50000
             ELSE IF lv > 5 * ma THEN 40000
             ELSE 30000
    ELSE 50000

\* 1004-1015: the OBV trend
obv_pts(ind, prev_ind, closes) ==
    IF ind.obv # None /\ prev_ind # None /\ Val(prev_ind).obv # None
    THEN LET obv_chg == Val(ind.obv) - Val(Val(prev_ind).obv)
             price_chg == IF Len(closes) >= 2 THEN closes[1] - closes[2] ELSE 0
         IN  IF obv_chg > 0 /\ price_chg <= 0 THEN 15000
             ELSE IF obv_chg > 0 /\ price_chg > 0 THEN 5000
             ELSE IF obv_chg < 0 /\ price_chg > 0 THEN -15000
             ELSE 0
    ELSE 0

\* The clamp of 1017 left out.
clamp_volume_none(v) == v

\* 1017: max(0.0, min(f_volume, 10.0))
clamp_volume(v) == IntMax(0, IntMin(v, 100000))

\* 983-1017: F4
f_volume(ind, prev_ind, closes, latest_volume) ==
    clamp_volume(volume_base(ind, latest_volume) + obv_pts(ind, prev_ind, closes))

\* 1048-1053: down_days, the run of falling closes from the latest row back
RECURSIVE down_days_from(_, _)
down_days_from(closes, i) ==
    IF i > IntMin(Len(closes) - 1, 4) THEN 0
    ELSE IF closes[i] < closes[i + 1] THEN 1 + down_days_from(closes, i + 1)
    ELSE 0

\* 1044-1057: P1, penalty_mult in hundredths
penalty_mult(closes) ==
    IF Len(closes) >= 4
    THEN LET down_days == down_days_from(closes, 1)
         IN  IF down_days >= 4 THEN 60 ELSE IF down_days >= 3 THEN 75 ELSE 100
    ELSE 100

\* 1060, 1065: P2 and P3 as tests
below_ma_200(ind, current_price) == Truthy(ind.ma_200) /\ current_price < Val(ind.ma_200)
overbought(ind) == ind.rsi_14 # None /\ Val(ind.rsi_14) > 75

\* 1061, 1066: f_momentum *= 0.5, twice when both hold
momentum_penalised(f, ind, current_price) ==
    LET a == IF below_ma_200(ind, current_price) THEN (f * 5) \div 10 ELSE f
    IN  IF overbought(ind) THEN (a * 5) \div 10 ELSE a

\* 1062, 1067: f_reversion *= 0.7 and *= 0.2
reversion_penalised(f, ind, current_price) ==
    LET a == IF below_ma_200(ind, current_price) THEN (f * 7) \div 10 ELSE f
    IN  IF overbought(ind) THEN (a * 2) \div 10 ELSE a

\* 1089-1097: composite as the fraction n / d in 1/10000: the weighted sum
\* times penalty_mult, not below 0
composite_of(lw, f, penalty) ==
    LET total == lw["trend"].n * f.f_trend + lw["momentum"].n * f.f_momentum
                    + lw["reversion"].n * f.f_reversion + lw["volume"].n * f.f_volume
                    + lw["strength"].n * f.f_strength
    IN  [n |-> IntMax(total * penalty, 0), d |-> lw["trend"].d * 100]

\* 835-1097: the factors, weights and composite of one instrument
ScoreInstrument(w, ind, prev_ind, closes, latest_volume) ==
    LET current_price == closes[1]
        f == [f_trend |-> f_trend(ind, prev_ind, current_price),
              f_momentum |->
                  momentum_penalised(
                      f_momentum(ind, prev_ind, closes, current_price, latest_volume),
                      ind, current_price),
              f_reversion |->
                  reversion_penalised(f_reversion(ind, prev_ind, current_price),
                                      ind, current_price),
              f_volume |-> f_volume(ind, prev_ind, closes, latest_volume),
              f_strength |-> f_strength(ind.adx_14) * 1000]
        lw == Normalize(AdjustWeights(w, ind.adx_14))
        p == penalty_mult(closes)
    IN  [f_trend |-> f.f_trend, f_momentum |-> f.f_momentum,
         f_reversion |-> f.f_reversion, f_volume |-> f.f_volume,
         f_strength |-> f.f_strength, penalty_mult |-> p, local_weights |-> lw,
         composite |-> composite_of(lw, f, p),
         golden_cross |-> is_golden_cross(ind, prev_ind),
         trap_factor |-> trap_factor(ind, prev_ind, current_price, latest_volume),
         below_ma_200 |-> below_ma_200(ind, current_price),
         overbought |-> overbought(ind)]

\* no instrument has been scored
NoFactors ==
    [f_trend |-> 0, f_momentum |-> 0, f_reversion |-> 0, f_volume |-> 0, f_strength |-> 0,
     penalty_mult |-> 100, local_weights |-> Normalize(RegimeWeights("trending")),
     composite |-> [n |-> 0, d |-> 10000],
     golden_cross |-> FALSE, trap_factor |-> 100, below_ma_200 |-> FALSE,
     overbought |-> FALSE]

\* 789-1097: one pass of the loop body for an instrument that is scored
score_instrument ==
    /\ fpc = "next"
    /\ \E name \in {"high_volatility", "trending"}, i \in IndRows,
          p \in PrevInds, closes \in ClosesLatestFirst, v \in LatestVolumes :
          factors' = ScoreInstrument(RegimeWeights(name), i, p, closes, v)
    /\ fpc' = "scored"
    /\ UNCHANGED <<core_vars, prio_vars, alert_vars, score_vars, bt_vars, cache_vars>>

\* 1099-1109 and 789: the scores are appended, the loop takes the next ticker
\* and starts its factors afresh (840, 877, 935, 983, 1023, 1041)
next_ticker ==
    /\ fpc = "scored"
    /\ fpc' = "next"
    /\ factors' = NoFactors
    /\ UNCHANGED <<core_vars, prio_vars, alert_vars, score_vars, bt_vars, cache_vars>>

\* No instrument is followed through its factors.
FactorIdle ==
    /\ fpc = "idle"
    /\ factors = NoFactors

\* None of these components runs.
ExtIdle ==
    /\ ScoresIdle
    /\ BtIdle
    /\ CacheIdle
    /\ FactorIdle

\* --------------------------------------------------------------- initial
ItemInit ==
    /\ attempt = [i \in Tickers |-> 0]
    /\ api_attempt = [i \in Tickers |-> 0]
    /\ oracle_calls = [i \in Tickers |-> 0]
    /\ last_err = [i \in Tickers |-> "none"]
    /\ exc = [i \in Tickers |-> "none"]
    /\ ret = [i \in Tickers |-> "pending"]
    /\ recs = [i \in Tickers |-> <<>>]
    /\ results = [i \in Tickers |-> "unset"]
    /\ oracle_failures = 0
    /\ db_failures = 0
    /\ waited = [i \in Tickers |-> 0]
    /\ wait = [i \in Tickers |-> None]
    /\ err_delay = [i \in Tickers |-> None]

GateInit ==
    /\ raw = NoPayload
    /\ parsed = NoData
    /\ validated = NoData
    /\ price = 0
    /\ risk_calls = 0
    /\ risk_result = "none"
    /\ gate_log = <<>>

\* analyze_all_watchlist() is called.  The threshold acts inside the gate
\* only; a dispatch run is checked with its default.
Init ==
    /\ settings \in {s \in SettingsSpace : s.BUY_CONFIDENCE_THRESHOLD = DefaultBuyThreshold}
    /\ dispatch = "start"
    /\ pc = [i \in Tickers |-> "unsubmitted"]
    /\ script = [i \in Tickers |-> None]
    /\ delays = {None}
    /\ ItemInit
    /\ GateInit
    /\ PrioIdle
    /\ AlertIdle
    /\ ExtIdle

\* analyze_ticker(1) is called directly; no dispatch runs.
InitGate ==
    /\ settings \in {s \in SettingsSpace : s.GEMINI_CONCURRENCY = NoAttr}
    /\ dispatch = "direct"
    /\ pc = [i \in Tickers |-> IF i = 1 THEN "enter" ELSE "unsubmitted"]
    /\ script = [i \in Tickers |-> None]
    /\ delays = {None}
    /\ ItemInit
    /\ GateInit
    /\ PrioIdle
    /\ AlertIdle
    /\ ExtIdle

\* analyze_all_watchlist() is called with the credential present, stored data
\* for every ticker and an oracle set up per item (the stub oracle of a test).
InitScript ==
    /\ settings \in {s \in SettingsSpace : /\ s.GEMINI_API_KEY
                                           /\ s.BUY_CONFIDENCE_THRESHOLD = DefaultBuyThreshold}
    /\ dispatch = "start"
    /\ pc = [i \in Tickers |-> "unsubmitted"]
    /\ script \in [Tickers -> {Some(sc) : sc \in Scripts}]
    /\ delays = {None}
    /\ ItemInit
    /\ GateInit
    /\ PrioIdle
    /\ AlertIdle
    /\ ExtIdle

\* ---------------------------------------------------------- specifications
Next ==
    \/ dispatch_start
    \/ dispatch_return
    \/ \E i \in Tickers :
          \/ worker_pick(i)
          \/ stagger_wake(i)
          \/ analyze_ticker_enter(i)
          \/ analyze_ticker_call(i)
          \/ analyze_ticker_wake(i)
          \/ analyze_one_wake(i)
          \/ collect(i)

Spec == Init /\ [][Next]_vars

\* analyze_all_watchlist() is called as in InitScript, against an oracle whose
\* rate-limit errors name a retry delay or none and whose answer is a BUY that
\* passes the threshold.
InitBackoff ==
    /\ settings \in {s \in SettingsSpace : /\ s.GEMINI_API_KEY
                                           /\ s.BUY_CONFIDENCE_THRESHOLD = DefaultBuyThreshold}
    /\ dispatch = "start"
    /\ pc = [i \in Tickers |-> "unsubmitted"]
    /\ script \in [Tickers -> {Some(sc) : sc \in {s \in Scripts :
                                      s.payload.confidence.n.v >= DefaultBuyThreshold}}]
    /\ delays = RetryDelays
    /\ ItemInit
    /\ GateInit
    /\ PrioIdle
    /\ AlertIdle
    /\ ExtIdle

SpecBackoff == InitBackoff /\ [][Next]_vars

NextGate ==
    \E i \in Tickers :
        \/ analyze_ticker_enter(i)
        \/ analyze_ticker_call(i)
        \/ analyze_ticker_wake(i)
        \/ gate_validate(i)
        \/ gate_threshold(i)
        \/ gate_risk(i)
        \/ gate_persist(i)
        \/ gate_commit(i)

SpecGate == InitGate /\ [][NextGate]_vars

\* a dispatch run against a scripted oracle
SpecScript == InitScript /\ [][Next]_vars

\* No analysis is under way.
CoreIdle ==
    /\ settings \in {s \in SettingsSpace : /\ ~s.GEMINI_API_KEY
                                           /\ s.GEMINI_CONCURRENCY = NoAttr
                                           /\ s.GEMINI_BACKOFF_BASE = NoAttr
                                           /\ s.BUY_CONFIDENCE_THRESHOLD = DefaultBuyThreshold}
    /\ dispatch = "direct"
    /\ pc = [i \in Tickers |-> "unsubmitted"]
    /\ script = [i \in Tickers |-> None]
    /\ delays = {None}
    /\ ItemInit
    /\ GateInit

\* get_priority_tickers(max_count) is called.
InitPriority ==
    /\ CoreIdle
    /\ AlertIdle
    /\ ExtIdle
    /\ ppc = "start"
    /\ max_count = 0
    /\ vix_data = [k |-> "none", v |-> Num(0)]
    /\ vix_level = Num(DefaultVix)
    /\ regime_name = "trending"
    /\ weights = RegimeWeights("trending")
    /\ scan = 1
    /\ cur = [ticker |-> 0, kind |-> "none", raw_adx |-> None]
    /\ local_weights = NoWeights
    /\ stock_scores = <<>>
    /\ absent = {}
    /\ sel = 1
    /\ selected = <<>>
    /\ sector_counts = [s \in Sectors |-> 0]

NextPriority ==
    \/ detect_regime
    \/ score_ticker
    \/ sort_scores
    \/ select_step
    \/ select_return

SpecPriority == InitPriority /\ [][NextPriority]_vars

\* The PriceAlert rows set_alert calls can have left behind.
PriceAlertRows ==
    [stock : KnownStocks, alert_type : VALID_ALERT_TYPES, threshold_value : AlertThresholds]

\* The scheduler's alert job runs every TickMinutes (check_and_notify, 346-374:
\* check_portfolio_alerts, then check_volume_surge), over the alerts set so far.
InitAlert ==
    /\ CoreIdle
    /\ PrioIdle
    /\ ExtIdle
    /\ clock = 0
    /\ alert_history = {}
    /\ price_alerts \in SUBSET PriceAlertRows
    /\ set_call = [alert_type |-> "none", ret |-> TRUE, session |-> FALSE, changed |-> FALSE]

NextAlert ==
    \/ check_portfolio_alerts
    \/ check_volume_surge
    \/ tick

SpecAlert == InitAlert /\ [][NextAlert]_vars

\* set_alert is called, again and again.
InitSetAlert ==
    /\ CoreIdle
    /\ PrioIdle
    /\ AlertIdle
    /\ ExtIdle

NextSetAlert ==
    \E ticker \in SetAlertTickers, alert_type \in AlertTypeInputs,
       threshold_value \in AlertThresholds :
       set_alert(ticker, alert_type, threshold_value)

SpecSetAlert == InitSetAlert /\ [][NextSetAlert]_vars

\* _parse_response is called on an answer that passed 533-556; 558-567: the
\* defaults are set, a missing score is None.
InitScores ==
    /\ CoreIdle
    /\ PrioIdle
    /\ AlertIdle
    /\ BtIdle
    /\ CacheIdle
    /\ FactorIdle
    /\ spc = "defaults"
    /\ reported \in [weighted_score : ReportedComposites, technical_score : ReportedScores,
                     fundamental_score : ReportedScores, sentiment_score : ReportedScores]
    /\ data = reported

NextScores ==
    \/ check_weighted_score
    \/ clamp_scores

SpecScores == InitScores /\ [][NextScores]_vars

\* Two recommendations await their outcome: one made on day 0, one on day 1;
\* the market has its daily rows ahead.
InitBacktest ==
    /\ CoreIdle
    /\ PrioIdle
    /\ AlertIdle
    /\ ScoresIdle
    /\ CacheIdle
    /\ FactorIdle
    /\ today = 0
    /\ market \in [PriceDays -> {None} \cup {Some(c) : c \in Closes}]
    /\ \E p \in RecPrices :
          brecs = [r \in RecIds |->
                     [recommendation_date |-> r - 1,
                      price_at_recommendation |-> IF r = 1 THEN p ELSE Some(80),
                      outcome_price |-> None, outcome_return |-> None]]
    /\ bt_ret = NoCall

NextBacktest ==
    \/ update_outcomes
    \/ update_outcomes_raises
    \/ bt_tick

SpecBacktest == InitBacktest /\ [][NextBacktest]_vars

\* Every dispatch worker is about to ask for its first market symbol; the
\* cache holds none of them yet.
InitCache ==
    /\ CoreIdle
    /\ PrioIdle
    /\ AlertIdle
    /\ ScoresIdle
    /\ BtIdle
    /\ FactorIdle
    /\ \E n \in OtherKeys : cache = [others |-> n, syms |-> {}]
    /\ tpc = [w \in Workers |-> "test"]
    /\ tsym = [w \in Workers |-> 1]
    /\ failed = [w \in Workers |-> {}]

NextCache ==
    \E w \in Workers :
        \/ get_ticker_test(w)
        \/ get_ticker_len(w)
        \/ get_ticker_clear(w)
        \/ get_ticker_insert(w)
        \/ get_ticker_return(w)

SpecCache == InitCache /\ [][NextCache]_vars

\* The pass of get_priority_tickers is about to score an instrument.
InitFactors ==
    /\ CoreIdle
    /\ PrioIdle
    /\ AlertIdle
    /\ ScoresIdle
    /\ BtIdle
    /\ CacheIdle
    /\ fpc = "next"
    /\ factors = NoFactors

NextFactors ==
    \/ score_instrument
    \/ next_ticker

SpecFactors == InitFactors /\ [][NextFactors]_vars

\* ------------------------------------------------------------------ claims
Buys == {"BUY", "STRONG_BUY"}
\* severity order HOLD < BUY < STRONG_BUY
Sev(a) == CASE a = "HOLD" -> 0 [] a = "BUY" -> 1 [] a = "STRONG_BUY" -> 2 [] OTHER -> 3
Logged(e) == \E k \in 1..Len(gate_log) : gate_log[k] = e
InUnit(c) == ~c.nan /\ 0 <= c.v /\ c.v <= 100
\* x within [lo/100, hi/100] times p
WithinBand(x, lo, hi, p) == p * lo <= x * 100 /\ x * 100 <= p * hi
Threshold == Num(settings.BUY_CONFIDENCE_THRESHOLD)

\* C1: once a verdict has passed validation, the action the gate works on and
\* the action of every persisted recommendation are never more severe than the
\* validated action (HOLD < BUY < STRONG_BUY).
C1_NoUpgrade ==
    Logged("VALIDATED") =>
        /\ Sev(parsed.action) <= Sev(validated.action)
        /\ \A k \in 1..Len(recs[1]) : Sev(recs[1][k].action) <= Sev(validated.action)
\* a validated STRONG_BUY was persisted as HOLD
C1_Witness ==
    /\ Len(recs[1]) = 1
    /\ validated.action = "STRONG_BUY"
    /\ recs[1][1].action = "HOLD"

\* C2: after the threshold step a validated BUY / STRONG_BUY whose confidence is
\* strictly below BUY_CONFIDENCE_THRESHOLD has action HOLD and the confidence it
\* had; no persisted recommendation is a BUY / STRONG_BUY below the threshold.
C2_ThresholdDowngrade ==
    /\ (Logged("THRESHOLD_CHECKED") /\ validated.action \in Buys
            /\ PyLt(validated.confidence, Threshold))
        => (parsed.action = "HOLD" /\ parsed.confidence = validated.confidence)
    /\ \A k \in 1..Len(recs[1]) :
          ~(recs[1][k].action \in Buys /\ PyLt(recs[1][k].confidence, Threshold))
\* BUY at 0.58 under threshold 0.65 was persisted as HOLD at 0.58
C2_Witness ==
    /\ settings.BUY_CONFIDENCE_THRESHOLD = 65
    /\ validated.action = "BUY" /\ validated.confidence = Num(58)
    /\ Len(recs[1]) = 1
    /\ recs[1][1].action = "HOLD" /\ recs[1][1].confidence = Num(58)

\* C3: the confidence _parse_response returns lies in [0, 1] whatever the input
\* confidence was (below 0, above 1, nan), and so does the confidence of every
\* persisted recommendation.
C3_ConfidenceInUnitRange ==
    /\ Logged("VALIDATED") => InUnit(validated.confidence)
    /\ \A k \in 1..Len(recs[1]) : InUnit(recs[1][k].confidence)
\* a payload with confidence nan was validated and persisted
C3_Witness ==
    /\ raw.confidence = [k |-> "num", n |-> NaN]
    /\ Logged("VALIDATED")
    /\ Len(recs[1]) = 1

\* C4: a payload that cannot be parsed (directly or through the {...} block), or
\* whose action is not STRONG_BUY / BUY / HOLD, or that has no confidence, is
\* rejected: analyze_ticker returns None, nothing is persisted, the risk manager
\* is not called.
C4_UnusablePayloadRejected ==
    (raw # NoPayload
        /\ (raw.text \in {"nobrace", "badjson"} \/ raw.action \notin ValidActions
                \/ raw.confidence.k = "absent"))
    => /\ gate_log = <<"REJECTED">>
       /\ pc[1] = "returned" /\ ret[1] = "None"
       /\ recs[1] = <<>>
       /\ risk_calls = 0
\* a well-formed payload with action SELL was rejected
C4_Witness ==
    /\ raw.text = "json" /\ raw.action = "SELL" /\ raw.confidence.k = "num"
    /\ pc[1] = "returned" /\ ret[1] = "None"

\* C5 as stated: every persisted recommendation with a known target has it
\* within [0.95, 1.30] x price_at_recommendation, and with a known stop has it
\* within [0.85, 0.99] x price_at_recommendation.
C5_BandsAlways ==
    \A k \in 1..Len(recs[1]) :
        LET r == recs[1][k]
        IN  /\ r.target_price # None
                => WithinBand(Val(r.target_price), 95, 130, r.price_at_recommendation)
            /\ r.stop_loss # None
                => WithinBand(Val(r.stop_loss), 85, 99, r.price_at_recommendation)

\* C5 (amended): the bands hold for every persisted recommendation whose
\* price_at_recommendation is positive; with a positive price an out-of-band
\* target or stop becomes unknown, the verdict is validated all the same, its
\* action is the payload's and a confidence within [0, 1] is the payload's.
C5_BandsWithPositivePrice ==
    /\ \A k \in 1..Len(recs[1]) :
          LET r == recs[1][k]
          IN  r.price_at_recommendation > 0 =>
                /\ r.target_price # None
                    => WithinBand(Val(r.target_price), 95, 130, r.price_at_recommendation)
                /\ r.stop_loss # None
                    => WithinBand(Val(r.stop_loss), 85, 99, r.price_at_recommendation)
    /\ (raw.text \in {"json", "wrapped"} /\ raw.action \in ValidActions
            /\ raw.confidence.k = "num" /\ raw.reasoning # "absent" /\ price > 0)
        => /\ Logged("VALIDATED")
           /\ validated.action = raw.action
           /\ InUnit(raw.confidence.n) => validated.confidence = raw.confidence.n
           /\ (raw.target_price # None /\ ~WithinBand(Val(raw.target_price), 95, 130, price))
                => validated.target_price = None
           /\ (raw.stop_loss # None /\ ~WithinBand(Val(raw.stop_loss), 85, 99, price))
                => validated.stop_loss = None
\* a target of 1.45 x the price was dropped, the BUY at 0.90 persisted unchanged
C5_Witness ==
    /\ price = 100 /\ raw.target_price = Some(145)
    /\ raw.action = "BUY" /\ raw.confidence = [k |-> "num", n |-> Num(90)]
    /\ Len(recs[1]) = 1
    /\ recs[1][1].target_price = None
    /\ recs[1][1].action = "BUY" /\ recs[1][1].confidence = Num(90)

\* C6: when the risk manager disallows a verdict that is still a BUY /
\* STRONG_BUY, configuration selects the outcome: some configuration (the
\* hard-downgrade setting) brings the same verdict to the risk step and turns
\* it into HOLD.
C6_DisallowOutcomeConfigurable ==
    (pc[1] = "risk_checked" /\ risk_result = "disallowed")
    => \E s \in SettingsSpace :
          LET t == ThresholdStep(validated, s.BUY_CONFIDENCE_THRESHOLD)
          IN  RiskNeeded(t) /\ RiskStep(t, "disallowed").action = "HOLD"

\* The orders in which the gate's steps can be taken.
GateOrders ==
    { <<"REJECTED">> }
    \cup { <<"VALIDATED", "THRESHOLD_CHECKED">> \o r \o e :
             r \in { <<"RISK_CALL", "RISK_CHECKED">>, <<"RISK_CHECKED">> },
             e \in { <<"PERSIST", "FINAL">>, <<"PERSIST", "ROLLBACK">>, <<"ROLLBACK">> } }
IsPrefix(a, b) == Len(a) <= Len(b) /\ a = SubSeq(b, 1, Len(a))
Last(q) == q[Len(q)]

C8_DispatchReturnsCompleteMap ==
    /\ dispatch # "raised"
    /\ dispatch = "returned" =>
          \A i \in Tickers : results[i] \in {"STRONG_BUY", "BUY", "HOLD", "ERROR"}

\* C9: in one dispatch run the oracle is called at most 3 times for an item,
\* the loop of analyze_ticker and the loop of _analyze_one counted together.
C9_AtMostThreeOracleCalls ==
    \A i \in Tickers : oracle_calls[i] <= 3

\* C10: after an oracle call of an item failed with an error that is no
\* rate-limit signal, the oracle is not called again for the item.
C10_NoRetryAfterOtherError ==
    [][\A i \in Tickers : last_err[i] = "other" => oracle_calls'[i] <= oracle_calls[i]]_vars

\* The action a scripted BUY answer ends as: HOLD under the threshold.
AnswerAction(p) == IF p.confidence.n.v < settings.BUY_CONFIDENCE_THRESHOLD THEN "HOLD" ELSE p.action

\* C11: in a dispatch run whose storage worked, whatever the interleaving of the
\* workers, the outcome returned for an item is the action of the item's own
\* oracle answer, whether the oracle rate-limited the item twice before
\* answering or answered at once, and whatever it did for the other items.
C11_OutcomeIsOwnAnswer ==
    (dispatch = "returned" /\ db_failures = 0) =>
        \A i \in Tickers : results[i] = AnswerAction(Val(script[i]).payload)

C13_AtMostCInFlight ==
    settings.GEMINI_CONCURRENCY # NoAttr =>
        Cardinality({i \in Tickers : InFlight(i)}) <= Concurrency
\* C items are in flight while a further item waits in the queue
C13_Witness ==
    /\ settings.GEMINI_CONCURRENCY # NoAttr
    /\ Cardinality({i \in Tickers : InFlight(i)}) = Concurrency
    /\ \E i \in Tickers : pc[i] = "queued"

\* C14: once the first attempt of the item submitted at index idx has begun, its
\* worker has slept idx mod C time units of stagger, no more and no less, and
\* this stays so through every retry; before that it has slept none.  An item
\* with idx mod C = 0 never sleeps a stagger.
C14_StaggerOnce ==
    settings.GEMINI_CONCURRENCY # NoAttr =>
        \A i \in Tickers :
            /\ waited[i] = (IF pc[i] \in {"unsubmitted", "queued", "stagger"}
                            THEN 0 ELSE (i - 1) % Concurrency)
            /\ pc[i] = "stagger" => (i - 1) % Concurrency > 0
\* an item with a stagger of one unit is in its second attempt after a backoff
C14_Witness ==
    \E i \in Tickers :
        /\ settings.GEMINI_CONCURRENCY # NoAttr
        /\ (i - 1) % Concurrency = 1
        /\ attempt[i] = 1 /\ pc[i] = "enter"
        /\ waited[i] = 1

\* the sum of the numerators of local_weights
NumeratorSum ==
    local_weights["trend"].n + local_weights["momentum"].n + local_weights["reversion"].n
    + local_weights["volume"].n + local_weights["strength"].n

\* C15: whatever the regime and whatever the ADX of the instrument (absent and
\* nan included), the weight vector the composite of a scored instrument is
\* computed with sums to 1 (its five fractions have one positive denominator
\* and their numerators add up to it) and each of its five weights is positive.
C15_WeightsSumToOne ==
    stock_scores # <<>> =>
        /\ \A k \in Factors :
              /\ local_weights[k].d = local_weights["trend"].d
              /\ local_weights[k].d > 0
              /\ local_weights[k].n > 0
        /\ NumeratorSum = local_weights["trend"].d
\* high volatility, ADX 10: reversion capped at 0.45, momentum floored at 0.05
C15_Witness ==
    /\ regime_name = "high_volatility"
    /\ cur.kind = "scored" /\ cur.raw_adx = Some(Num(10))
    /\ local_weights["reversion"] = [n |-> 45, d |-> 100]
    /\ local_weights["momentum"] = [n |-> 5, d |-> 100]

\* selected tickers whose primary category is s
SelectedOf(s) ==
    {k \in 1..Len(selected) : PrimarySector(TICKER_INDEX(selected[k])) = s}

\* C16: after every pass of the selection loop and at the return, selected has
\* at most max_count tickers, no ticker twice, and at most
\* max(3, max_count div 5) tickers of any one primary category.
C16_SelectionBounds ==
    ppc \in {"selecting", "returned"} =>
        /\ Len(selected) <= max_count
        /\ \A j, k \in 1..Len(selected) : j # k => selected[j] # selected[k]
        /\ \A s \in Sectors :
              /\ Cardinality(SelectedOf(s)) <= 3 \/ Cardinality(SelectedOf(s)) <= max_count \div 5
              /\ sector_counts[s] = Cardinality(SelectedOf(s))
\* four instruments of one category were scored, room for five: three selected
C16_Witness ==
    /\ ppc = "returned"
    /\ max_count = 5
    /\ Len(stock_scores) = 4
    /\ \A k \in 1..4 : PrimarySector(stock_scores[k].category) = "SP500"
    /\ Len(selected) = 3

\* C17: an instrument without stored stock, without indicator inside the
\* staleness window, without price rows or without current price has no entry
\* in stock_scores and is not in the selected list; finding it so adds no
\* entry and changes none (the list of scores stays as it was); the call goes
\* on and returns.
C17_AbsentNotScored ==
    /\ [](\A t \in absent :
            /\ \A k \in 1..Len(stock_scores) : stock_scores[k].ticker # t
            /\ \A k \in 1..Len(selected) : selected[k] # t)
    /\ [][absent' # absent => (stock_scores' = stock_scores /\ ppc' = "scoring")]_vars
\* the call returned a selection although the second instrument had no data
C17_Witness ==
    /\ ppc = "returned"
    /\ absent = {2}
    /\ Len(stock_scores) = NumInstruments - 1
    /\ Len(selected) >= 2

\* C18: once the regime is detected: a level above 28 gives high_volatility,
\* a level above 20 and at most 28 transitional, any other level (nan
\* included) trending; a fetch that raised or returned nothing gives the
\* default level 18, trending and the trending weights.
C18_RegimeDetection ==
    ppc \notin {"idle", "start"} =>
        /\ (vix_data.k = "price" /\ ~vix_data.v.nan /\ vix_data.v.v > 28)
              => regime_name = "high_volatility"
        /\ (vix_data.k = "price" /\ ~vix_data.v.nan /\ vix_data.v.v > 20 /\ vix_data.v.v <= 28)
              => regime_name = "transitional"
        /\ (vix_data.k = "price" /\ (vix_data.v.nan \/ vix_data.v.v <= 20))
              => regime_name = "trending"
        /\ vix_data.k \in {"raises", "none"}
              => /\ regime_name = "trending"
                 /\ vix_level = Num(18)
        /\ regime_name = "trending"
              => weights = [trend |-> 30, momentum |-> 30, reversion |-> 10,
                            volume |-> 15, strength |-> 15]
\* the fetch raised and the call returned a selection made under trending
C18_Witness ==
    /\ vix_data.k = "raises"
    /\ ppc = "returned"
    /\ regime_name = "trending"
    /\ selected # <<>>

\* C19: a set_alert call with an alert_type other than STOP_LOSS, TARGET_PRICE
\* and VOLUME_SURGE returns False, opens no storage session and creates or
\* changes no PriceAlert.
C19_OnlyThreeTypesAccepted ==
    set_call.alert_type \notin {"none", "STOP_LOSS", "TARGET_PRICE", "VOLUME_SURGE"} =>
        /\ set_call.ret = FALSE
        /\ ~set_call.session
        /\ ~set_call.changed
        /\ \A a \in price_alerts :
              a.alert_type \in {"STOP_LOSS", "TARGET_PRICE", "VOLUME_SURGE"}

\* C20: two AlertHistory rows of the same stock and type are at least 60
\* minutes apart.
C20_SixtyMinutesApart ==
    \A a, b \in alert_history :
        (a # b /\ a.stock = b.stock /\ a.alert_type = b.alert_type)
            => (a.triggered_at - b.triggered_at >= 60 \/ b.triggered_at - a.triggered_at >= 60)

\* the entry of stock_scores of ticker t
EntryOf(t) == CHOOSE e \in {stock_scores[k] : k \in 1..Len(stock_scores)} : e.ticker = t
\* position of ticker t in the watchlist
WatchPos(t) == CHOOSE k \in 1..Len(watchlist) : watchlist[k] = t
\* a comes before b in the score-descending order with ties in input order
Before(a, b) ==
    \/ EntryOf(a).score > EntryOf(b).score
    \/ EntryOf(a).score = EntryOf(b).score /\ WatchPos(a) < WatchPos(b)
ScoredTickers == {stock_scores[k].ticker : k \in 1..Len(stock_scores)}
SelectedTickers == {selected[k] : k \in 1..Len(selected)}

C23_FiveHundredthsEachWay ==
    cur.kind = "scored" =>
        LET a == cur.raw_adx
        IN  IF a # None /\ PyLt(Num(30), Val(a))
            THEN /\ local_weights["momentum"].n = IntMin(weights.momentum + 5, 40)
                 /\ local_weights["reversion"].n = IntMax(weights.reversion - 5, 5)
            ELSE IF a # None /\ PyLt(Val(a), Num(20))
                 THEN /\ local_weights["momentum"].n = IntMax(weights.momentum - 5, 5)
                      /\ local_weights["reversion"].n = IntMin(weights.reversion + 5, 45)
                 ELSE /\ local_weights["momentum"].n = weights.momentum
                      /\ local_weights["reversion"].n = weights.reversion
\* C23: the micro-regime adjustment of a scored instrument: ADX above 30 gives
\* momentum + 0.05 (at most 0.40) and reversion - 0.05 (at least 0.05); ADX
\* below 20 gives reversion + 0.10 (at most 0.45) and momentum - 0.10 (at least
\* 0.05); an ADX from 20 to 30, nan or absent changes neither; trend, volume
\* and strength keep the regime's weight; all five are then divided by their
\* sum.
C23_MicroRegimeAdjustment ==
    cur.kind = "scored" =>
        LET a == cur.raw_adx
        IN  /\ IF a # None /\ PyLt(Num(30), Val(a))
               THEN /\ local_weights["momentum"].n = IntMin(weights.momentum + 5, 40)
                    /\ local_weights["reversion"].n = IntMax(weights.reversion - 5, 5)
               ELSE IF a # None /\ PyLt(Val(a), Num(20))
                    THEN /\ local_weights["momentum"].n = IntMax(weights.momentum - 10, 5)
                         /\ local_weights["reversion"].n = IntMin(weights.reversion + 10, 45)
                    ELSE /\ local_weights["momentum"].n = weights.momentum
                         /\ local_weights["reversion"].n = weights.reversion
            /\ \A k \in {"trend", "volume", "strength"} : local_weights[k].n = weights[k]
            /\ \A k \in Factors : local_weights[k].d = NumeratorSum
\* trending regime, ADX 10: momentum 0.30 - 0.10, reversion 0.10 + 0.10
C23_Witness ==
    /\ regime_name = "trending"
    /\ cur.kind = "scored" /\ cur.raw_adx = Some(Num(10))
    /\ local_weights["momentum"].n = 20
    /\ local_weights["reversion"].n = 20

\* C28: in the map a dispatch run returns, a ticker's outcome is STRONG_BUY,
\* BUY or HOLD exactly when one Recommendation was committed for the ticker
\* during the run, and it is then that row's action; the outcome is ERROR
\* exactly when none was committed; never more than one is committed.
C28_OutcomeIffOnePersisted ==
    dispatch = "returned" =>
        \A i \in Tickers :
            /\ Len(recs[i]) <= 1
            /\ results[i] \in {"STRONG_BUY", "BUY", "HOLD"} <=> Len(recs[i]) = 1
            /\ Len(recs[i]) = 1 => results[i] = recs[i][1].action
            /\ results[i] = "ERROR" <=> recs[i] = <<>>
\* a returned run with a storage fault: one ticker has its row and a BUY, the
\* other has no row and ERROR
C28_Witness ==
    /\ dispatch = "returned"
    /\ db_failures = 1
    /\ \E i, j \in Tickers :
          /\ Len(recs[i]) = 1 /\ results[i] = "BUY"
          /\ recs[j] = <<>> /\ results[j] = "ERROR"

\* the hint read from the text of the error that sent item i to sleep
HintOf(i) == IF err_delay[i] = None THEN 0 ELSE Val(err_delay[i]) + 1
\* w is max(base * 2^a, hint of item i), and base * 2^a alone without hint
IsBackoffOf(w, i, a) ==
    LET b == Val(settings.GEMINI_BACKOFF_BASE) * 2^a
    IN  /\ w >= b /\ w >= HintOf(i)
        /\ w = b \/ w = HintOf(i)
        /\ err_delay[i] = None => w = b

AllScoresPresent(d) ==
    /\ d.weighted_score # None
    /\ d.technical_score # None /\ d.fundamental_score # None /\ d.sentiment_score # None

\* 0.45*technical + 0.30*fundamental + 0.25*sentiment of d in 1/10000, as a
\* set: empty when a sub-score is nan
WeightedSum(d) ==
    IF Val(d.technical_score).nan \/ Val(d.fundamental_score).nan
          \/ Val(d.sentiment_score).nan
    THEN {}
    ELSE {45 * Val(d.technical_score).v + 30 * Val(d.fundamental_score).v
             + 25 * Val(d.sentiment_score).v}

\* the composite of d is a number at distance at most 1.5 of the weighted sum
\* of the sub-scores of d
WithinOneAndAHalf(d) ==
    /\ ~Val(d.weighted_score).nan
    /\ \E e \in WeightedSum(d) :
          /\ Val(d.weighted_score).v * 100 - e <= 15000
          /\ e - Val(d.weighted_score).v * 100 <= 15000

C29_ReturnedCompositeConsistent ==
    (spc = "returned" /\ AllScoresPresent(data)) => WithinOneAndAHalf(data)

\* a call of update_outcomes returns in this step
OutcomesCallReturns == bt_ret'.kind = "returned" /\ <<brecs, bt_ret>>' # <<brecs, bt_ret>>

\* price_at_recommendation of rec is a number, zero or negative
NonPositivePrice(rec) ==
    rec.price_at_recommendation # None /\ Val(rec.price_at_recommendation) <= 0

\* C21: a recommendation whose price_at_recommendation is zero or negative
\* never has an outcome: outcome_return and outcome_price stay unset ...
C21_NoOutcomeForNonPositivePrice ==
    \A r \in RecIds :
        NonPositivePrice(brecs[r]) =>
            brecs[r].outcome_return = None /\ brecs[r].outcome_price = None

\* C21: ... and the number update_outcomes returns counts the records of
\* positive price whose outcome the call set, and no other.
C21_NotCounted ==
    [][OutcomesCallReturns =>
          bt_ret'.n = Cardinality({r \in RecIds :
                                      /\ ~NonPositivePrice(brecs[r])
                                      /\ brecs[r].outcome_return = None
                                      /\ brecs'[r].outcome_return # None})]_vars

\* C21, both parts: the state predicate above holds at every state and every
\* call counts as stated.
C21_SkipsNonPositivePrice == []C21_NoOutcomeForNonPositivePrice /\ C21_NotCounted

\* C21 witness: on a day when a window of both recommendations has elapsed
\* with price data, a call returned 1: it set the outcome of the second and
\* left the first, whose price is not positive, without one.
C21_Witness ==
    /\ bt_ret = Returned(1)
    /\ NonPositivePrice(brecs[1])
    /\ brecs[1].outcome_return = None /\ brecs[1].outcome_price = None
    /\ ScanWindows(brecs[1], today, LOOKBACK_WINDOWS, None) # None
    /\ brecs[2].outcome_return # None

\* windows of rec that have elapsed on day t and have price data
WindowsWithData(rec, t) ==
    {days \in {5, 10, 30} :
        /\ t >= rec.recommendation_date + days
        /\ \E d \in PriceDays :
              d <= t /\ d >= rec.recommendation_date + days /\ market[d] # None}

\* the close of the first daily row at or after the end of the window
CloseAtWindow(rec, days) ==
    LET d == CHOOSE d \in PriceDays :
                /\ d >= rec.recommendation_date + days /\ market[d] # None
                /\ \A e \in PriceDays :
                      (e >= rec.recommendation_date + days /\ market[e] # None) => d <= e
    IN  Val(market[d])

\* net is the return, net of the trading cost, of buying at p and selling at
\* c, to 1/10000 of a percent
IsNetReturn(net, c, p) ==
    LET diff == (net + 3000) * p - (c - p) * 1000000
    IN  2 * diff <= p /\ 2 * diff > -p

\* no later call changes an outcome that has been set
OutcomeKept ==
    \A r \in RecIds :
        brecs[r].outcome_return # None =>
            /\ brecs'[r].outcome_return = brecs[r].outcome_return
            /\ brecs'[r].outcome_price = brecs[r].outcome_price

\* C30 as stated: a set outcome is never changed, and each call records, for
\* every recommendation without an outcome, the return at the longest window
\* that has elapsed and has price data, leaving it as it is when none has.
C30_EveryPendingRecorded ==
    [][/\ OutcomeKept
       /\ OutcomesCallReturns =>
             \A r \in RecIds :
                 brecs[r].outcome_return = None =>
                     IF WindowsWithData(brecs[r], today) = {}
                     THEN brecs'[r] = brecs[r]
                     ELSE /\ brecs'[r].outcome_return # None
                          /\ brecs'[r].outcome_price # None]_vars

\* C30 (amended): a set outcome is never changed; each call records, for a
\* recommendation without an outcome whose price_at_recommendation is
\* present and positive, the close and the net return at the longest window
\* that has elapsed and has price data, and leaves it as it is when none has.
C30_PendingPositiveRecorded ==
    [][/\ OutcomeKept
       /\ OutcomesCallReturns =>
             \A r \in RecIds :
                 (/\ brecs[r].outcome_return = None
                  /\ brecs[r].price_at_recommendation # None
                  /\ ~NonPositivePrice(brecs[r])) =>
                     LET W == WindowsWithData(brecs[r], today)
                         longest == CHOOSE d \in W : \A e \in W : d >= e
                         c == CloseAtWindow(brecs[r], longest)
                     IN  IF W = {}
                         THEN brecs'[r] = brecs[r]
                         ELSE /\ brecs'[r].outcome_price = Some(c)
                              /\ brecs'[r].outcome_return # None
                              /\ IsNetReturn(Val(brecs'[r].outcome_return), c,
                                             Val(brecs[r].price_at_recommendation))
                              /\ brecs'[r].recommendation_date = brecs[r].recommendation_date
                              /\ brecs'[r].price_at_recommendation
                                    = brecs[r].price_at_recommendation]_vars

\* C30 witness: the first recommendation, bought at 100 on day 0, got its
\* outcome when the 5-day and the 10-day window had both elapsed with
\* different closes: it holds the close of the 10-day window, and a later
\* call has returned 0 without changing it.
C30_Witness ==
    /\ today >= 12
    /\ market[5] = Some(110) /\ market[11] = Some(90)
    /\ brecs[1].price_at_recommendation = Some(100)
    /\ brecs[1].outcome_price = Some(90)
    /\ brecs[1].outcome_return = Some(-103000)
    /\ bt_ret = Returned(0)

\* C27: under every interleaving of the workers' _get_ticker calls the cache
\* holds at most MAX_CACHE_SIZE entries and no call fails at its lookup.
C27_CacheBoundedAndNoLookupFailure ==
    /\ CacheLen <= MAX_CACHE_SIZE
    /\ \A w \in Workers : failed[w] = {}

\* C26: when the composite of a scored instrument has been computed, each of
\* the five factor scores, as it stands after the bull-trap, below-long-MA
\* and overbought multipliers, lies in [0, 10], and so does the composite.
C26_FactorsAndCompositeInRange ==
    fpc = "scored" =>
        /\ \A k \in {"f_trend", "f_momentum", "f_reversion", "f_volume", "f_strength"} :
              0 <= factors[k] /\ factors[k] <= 10 * 10000
        /\ 0 <= factors.composite.n
        /\ factors.composite.n <= 10 * 10000 * factors.composite.d

\* C26 witness: an instrument was scored whose golden cross came on thin
\* volume below both short averages (trap factor 0.42), below its 200-day
\* average and overbought: its momentum of 5.5 went into the composite as
\* 0.5775.
C26_Witness ==
    /\ fpc = "scored"
    /\ factors.golden_cross /\ factors.trap_factor = 42
    /\ factors.below_ma_200 /\ factors.overbought
    /\ factors.f_momentum = 5775
    /\ factors.composite.n > 0

====
